---- MODULE Spec2Model ----
(***************************************************************************)
(* A model of sammck-go/wstunnel.                                          *)
(*                                                                         *)
(* Part 1: BipipeBridge (pkg/wstnet, bipipe_bridge.go): two forwarding     *)
(* goroutines, the goroutine that joins them, the asyncobj shutdown        *)
(* machinery of the bridge and of the two bridged Bipipes.                 *)
(* Part 2: the server side of a session (share/server_ssh_session.go):     *)
(* password authentication, the config request and its validation, the    *)
(* shutdown of the session.                                                *)
(* Part 3: the client (share/client.go): the connection loop with its      *)
(* backoff, GetSSHConn, the sub-streams the server opens.                  *)
(* Part 4: ShutdownHelper (share/shutdown_helper.go), called in any       *)
(* order, and a child registered with it.                                  *)
(* Part 5: netBipipeListener (pkg/wstnet): the acceptor goroutine, Accept  *)
(* and its cancellation, the shutdown of the listener.                     *)
(* Part 6: the loop registry and the loop stub endpoints.                  *)
(* Part 7: the sub-streams a peer opens on a session: the descriptor, the  *)
(* skeleton endpoint made for it, DialAndServe.                            *)
(* Part 8: LockedUnixSocketListener (share): the lock file and the socket  *)
(* file of one path, used by several processes.                            *)
(* Part 9: the write half of a Bipipe: CloseWrite, Write, Read, Close.     *)
(***************************************************************************)
EXTENDS Integers, Sequences, FiniteSets, TLC

(***************************************************************************)
(* Bounds                                                                  *)
(***************************************************************************)
\* the longest stream a peer produces on one Bipipe
MaxData == 2
\* bufferSize handed to NewBipipeBridger (bytes moved by one Read)
BufferSize == 1
\* calls of StartShutdown made on the bridge from outside
MaxExtCalls == 1
\* transport errors that strike the two Bipipes on their own
MaxFaults == 1
\* channel descriptors in one config request
MaxChannels == 2
\* SSH requests a client sends in one session
MaxRequests == 2
\* sub-streams a client asks for in one session
MaxOpens == 1

\* the seconds startWithSSHConn waits for the config request
ConfigTimeout == 10

Edges == {0, 1}

(***************************************************************************)
(* Error values.  nil is a value of the same shape so that errors compare. *)
(***************************************************************************)
Err(kind, i) == [k |-> kind, i |-> i]
Nil == Err("nil", 0)
EOF == Err("EOF", 0)
ErrShortWrite == Err("ErrShortWrite", 0)
\* the error an operation on a Bipipe returns once that Bipipe is shut down
ErrClosed(i) == Err("closed", i)

\* the k-th byte the peer of Bipipe i produces
Byte(i, k) == 10 * i + k
\* the first n bytes readable from Bipipe i
Stream(i, n) == [k \in 1..n |-> Byte(i, k)]

Min(a, b) == IF a < b THEN a ELSE b

VARIABLES
    \* ---- bridge construction parameters
    publishProgress,   \* NewBipipeBridger's publishProgress
    isWriterTo,        \* [edge -> the Bipipe implements io.WriterTo]
    isReaderFrom,      \* [edge -> the Bipipe implements io.ReaderFrom]
    faulty,            \* the Bipipes may break the Read/Write contract
    \* ---- the two Bipipes
    rd,                \* [edge -> bytes the Bipipe's Read has produced so far]
    eofSeen,           \* [edge -> the Bipipe's Read has reported end-of-stream]
    sink,              \* [edge -> sequence of bytes written to the Bipipe]
    writeClosed,       \* [edge -> CloseWrite succeeded]
    pst,               \* [edge -> "active" | "shutting" | "done"]
    pcause,            \* [edge -> advisory cause of the Bipipe's shutdown]
    pfinal,            \* [edge -> final status of the Bipipe's shutdown]
    \* ---- the bridge
    nbWritten,         \* [edge -> bipipeBridgeEdge.nbWritten]
    forwarderWg,       \* BipipeBridge.forwarderWg
    pc,                \* [edge -> position of the worker reading that edge]
    buf,               \* [edge -> bytes the worker holds and has to write]
    rerr,              \* [edge -> the worker's rerr]
    err,               \* [edge -> the worker's err]
    copied,            \* [edge -> io.Copy's running count for that worker]
    wpc,               \* position of the goroutine that joins the workers
    bbScheduled,       \* Helper.isScheduledShutdown of the bridge
    bbStarted,         \* Helper.isStartedShutdown of the bridge
    bbDone,            \* Helper.isDoneShutdown of the bridge
    bbErr,             \* Helper.shutdownErr of the bridge
    hpc,               \* position of HandleOnceShutdown
    finalErr,          \* HandleOnceShutdown's finalErr
    crashed,           \* a goroutine panicked: the process is gone
    \* ---- history
    firstErr,          \* the first error anything in the bridge observed
    errFirst,          \* a worker observed an error before any shutdown request
    violated,          \* [edge -> its worker saw a Bipipe break the I/O contract]
    completionErr,     \* the advisory cause HandleOnceShutdown was given
    cwCalled,          \* [edge -> the bridge called CloseWrite on it]
    wroteAfterClose,   \* a Write was issued after CloseWrite on an edge
    extCalls,          \* StartShutdown calls made from outside
    faults,            \* transport errors that have struck so far
    \* ---- the server
    users,             \* Server.users: the user of the index, or NoUser
    sessions,          \* Server.sessions: the user stored for this connection
    reverseOk,         \* Server.reverseOk
    ctxDone,           \* the context of the server is done
    \* ---- the session
    spc,               \* position of the goroutine that runs the session
    user,              \* startWithSSHConn's user
    r,                 \* startWithSSHConn's r
    chdIndex,          \* index of the listener loop of startWithSSHConn
    serr,              \* the error startWithSSHConn returns
    sshConn,           \* SSHSession.sshConn is set
    sshRequests,       \* the requests in the channel SSHSession.sshRequests
    newSSHChannels,    \* the number of open requests in SSHSession.newSSHChannels
    connClosed,        \* the SSH connection has ended
    elapsed,           \* seconds the timer of cfgCtx has run (0 when it does not run)
    listeners,         \* indices of the descriptors whose stub listener started
    reply,             \* the reply given to the first request
    reqLoop,           \* handleSSHRequests is running
    chanLoop,          \* handleSSHChannels is running
    shutdownPauseCount,    \* ShutdownHelper.shutdownPauseCount of the session
    isScheduledShutdown,   \* ShutdownHelper.isScheduledShutdown
    isStartedShutdown,     \* ShutdownHelper.isStartedShutdown
    isDoneShutdown,        \* ShutdownHelper.isDoneShutdown
    shutdownErr,           \* ShutdownHelper.shutdownErr
    shutdownHandlerDone,   \* ShutdownHelper.shutdownHandlerDoneChan is closed
    accepting,         \* indices of the descriptors whose stub listener accepts
    panicked,          \* a goroutine of the server panicked: the process is gone
    \* ---- history
    nSent,             \* requests the client has sent
    nOpened,           \* sub-streams the client has asked for
    firstType,         \* the type of the first request the session received
    pingsServed,       \* pings handleSSHRequests has answered
    chansServed,       \* sub-streams handleSSHChannels has taken up
    timedOut,          \* the wait for the first request ended by its timeout
    \* ---- the client (share/client.go)
    maxRetryCount,     \* Config.MaxRetryCount
    stubType,          \* the type of the stub of the configured channel
    cpc,               \* position of connectionLoop
    connerr,           \* connectionLoop's connerr
    bAttempt,          \* the attempt counter of the backoff b
    sshConnErr,        \* Client.sshConnErr
    cSSHConn,          \* Client.sshConn is set
    sshConnReady,      \* the channel Client.sshConnReady is closed
    connDown,          \* the SSH connection of the client has ended
    cScheduled,        \* ShutdownHelper.isScheduledShutdown of the client
    cStarted,          \* ShutdownHelper.isStartedShutdown of the client
    cDone,             \* ShutdownHelper.isDoneShutdown of the client
    cShutdownErr,      \* ShutdownHelper.shutdownErr of the client
    cCtxDone,          \* the context given to Client.Run is done
    runpc,             \* position of Client.Run
    runErr,            \* the error Client.Run returned
    exitStatus,        \* the exit status of the client process
    proxyStarted,      \* Client.Start started a TCPProxy for the channel
    getpc,             \* position of a caller of Client.GetSSHConn
    getErr,            \* the error GetSSHConn returned to that caller
    chans,             \* open requests waiting in connectStreams' chans
    streampc,          \* position of connectStreams
    \* ---- history
    dials,             \* connection attempts the client has made
    lost,              \* an established session was lost by a transport failure
    loopEnd,           \* why connectionLoop left its loop
    stubConns,         \* connections the client took from the channel's stub
    streamsOpened,     \* open requests the server has sent to the client
    streamsTaken,      \* open requests connectStreams has accepted
    \* ---- the ShutdownHelper called from outside
    isActivated,       \* ShutdownHelper.isActivated
    pendingStarts,     \* callers that set isStartedShutdown and whose goroutine of
                       \* asyncDoStartedShutdown has yet to invoke the handler
    paused,            \* PauseShutdown calls that succeeded and are not resumed
    activating,        \* DoOnceActivate calls whose handler runs
    resuming,          \* DoOnceActivate calls that have yet to resume
    \* ---- history
    handlerCalls,      \* invocations of HandleOnceShutdown
    apiCalls,          \* calls of the helper's methods made from outside
    startedBy,         \* the method that set isStartedShutdown
    firstCause,        \* the first cause other than nil that a caller gave
                       \* before HandleOnceShutdown was invoked
    \* ---- a child of the helper
    childpc,           \* position of the goroutine of AddShutdownChild
    childSt,           \* the child: "active" | "shutting" | "done"
    activateCalls,     \* invocations of the handler given to DoOnceActivate
    shutdownStartedChan, \* ShutdownHelper.shutdownStartedChan: "open" | "closed"
    \* ---- the netBipipeListener
    lpc,               \* "open", or the position of HandleOnceShutdown
    lcause,            \* the completion error of the listener
    apc,               \* position of the acceptor goroutine; "off": not activated
    acc,               \* [caller -> what its AcceptWithContext returned]
    nAccepted,         \* connections nl.Accept has returned
    nClosed,           \* connections HandleOnceShutdown has closed
    heldAtCancel,      \* a call was cancelled while the acceptor held a connection
    \* ---- the loop registry and its stubs
    entries,           \* LoopServer.entries: [name -> the acceptor, or NoStub]
    listening,         \* [stub -> LoopStubEndpoint.listening]
    epst,              \* [stub -> "active" | "started" | "draining"]
    starts,            \* [stub -> calls of StartListening]
    callerConns,       \* [stub -> connections queued on callerConns]
    dtarget,           \* the acceptor the dialer got from GetAcceptor
    dres,              \* what the last call of the dialer returned
    nDials,            \* calls the dialer has made
    \* ---- inbound sub-streams
    granted,           \* the skeleton descriptors of the channels of the config
    isServer,          \* the session is the server's (LocalChannelEnv.IsServer)
    sessionDown,       \* the session has shut down
    streamReq,         \* [stream -> the descriptor its open request carries]
    hnc,               \* [stream -> position of handleSSHNewChannel]
    skel,              \* [stream -> its skeleton endpoint: "none" | "live" | "shutdown"]
    streamConn,        \* [stream -> its SSHConn: "none" | "open" | "closed"]
    dialed,            \* [stream -> DialAndServe was called on its endpoint]
    rejection,         \* [stream -> the reason of the rejection sent, or "none"]
    \* ---- the locked Unix-socket listeners of one path
    lockFile,          \* the inode the name P.lock links to, or NoInode
    holder,            \* [inode -> the process that holds its flock, or NoProc]
    fdOf,              \* [process -> the inode of its lockFd, or NoInode]
    sockOwner,         \* the process whose socket file is at P, or NoProc
    info,              \* [process -> its stat found a socket at P]
    ppc,               \* [process -> position in the constructor or in Close]
    nOpens,            \* calls of NewLockedUnixSocketListener
    \* ---- the write half of one Bipipe
    variant,           \* the implementation of the Bipipe
    canHalfClose,      \* the net.Conn it wraps is a WriteHalfCloser
    cwReturned,        \* a call of CloseWrite has returned
    writeHalf,         \* the write side of what it wraps: "open" | "closed"
    bpClosed,          \* the Bipipe is closed
    wres,              \* what the last Write returned
    lateWrite,         \* what the last Write after a CloseWrite returned
    nWrites,           \* calls of Write
    peerLeft,          \* bytes of the peer that are not read yet
    peerEOF,           \* the peer closed its write half
    rres               \* what the last Read returned

bridgeVars == <<publishProgress, isWriterTo, isReaderFrom, faulty, rd, eofSeen,
                sink, writeClosed, pst, pcause, pfinal, nbWritten,
                forwarderWg, pc, buf, rerr, err, copied, wpc, bbScheduled,
                bbStarted, bbDone, bbErr, hpc, finalErr, crashed, firstErr, errFirst,
                violated,
                completionErr, cwCalled, wroteAfterClose, extCalls, faults>>

\* the variables of the client
connVars == <<maxRetryCount, stubType, cpc, connerr, bAttempt, sshConnErr, cSSHConn,
              sshConnReady, connDown, cScheduled, cStarted, cDone, cShutdownErr,
              cCtxDone, runpc, runErr, exitStatus, proxyStarted, getpc, getErr,
              chans, streampc, dials, lost, loopEnd, stubConns, streamsOpened,
              streamsTaken>>

\* the variables of the ShutdownHelper called from outside
onceVars == <<isActivated, pendingStarts, paused, activating, resuming,
              handlerCalls, apiCalls, startedBy, firstCause, childpc, childSt,
              activateCalls, shutdownStartedChan>>

\* the variables of the netBipipeListener
listenerVars == <<lpc, lcause, apc, acc, nAccepted, nClosed, heldAtCancel>>

\* the variables of the loop registry and its stubs
loopRegVars == <<entries, listening, epst, starts, callerConns, dtarget, dres, nDials>>

\* the variables of the inbound sub-streams
inboundVars == <<granted, isServer, sessionDown, streamReq, hnc, skel, streamConn,
                 dialed, rejection>>

\* the variables of the locked Unix-socket listeners
lockVars == <<lockFile, holder, fdOf, sockOwner, info, ppc, nOpens>>

\* the variables of the write half of a Bipipe
halfVars == <<variant, canHalfClose, cwReturned, writeHalf, bpClosed, wres, lateWrite,
              nWrites, peerLeft, peerEOF, rres>>

endpointVars == <<listenerVars, loopRegVars, inboundVars, lockVars, halfVars>>

\* the variables of the parts that follow the session
otherVars == <<connVars, onceVars, endpointVars>>

vars == <<bridgeVars, otherVars, users, sessions, reverseOk, ctxDone, spc, user, r, chdIndex,
          serr, sshConn, sshRequests, newSSHChannels, connClosed, elapsed, listeners,
          reply, reqLoop, chanLoop, shutdownPauseCount, isScheduledShutdown,
          isStartedShutdown, isDoneShutdown, shutdownErr, shutdownHandlerDone,
          accepting, panicked, nSent, nOpened, firstType, pingsServed, chansServed,
          timedOut>>

sessionVars == <<users, sessions, reverseOk, spc, user, r, chdIndex, serr, sshConn,
                 sshRequests, newSSHChannels, nSent, nOpened, connClosed, ctxDone,
                 elapsed, listeners, reply, reqLoop, chanLoop, pingsServed,
                 chansServed, shutdownPauseCount, isScheduledShutdown,
                 isStartedShutdown, isDoneShutdown, shutdownErr, shutdownHandlerDone,
                 accepting, firstType, panicked, timedOut>>

(***************************************************************************)
(* Part 1.  BipipeBridge                                                   *)
(***************************************************************************)
Other(w) == 1 - w

\* forwardOneBridgeEdgeDirection: whether the worker reading edge w uses
\* io.Copy instead of the buffered loop
useCopy(w) ==
    LET start == ~publishProgress
    IN  IF start /\ ~isWriterTo[w] /\ ~isReaderFrom[Other(w)] THEN FALSE ELSE start

\* What one Read of Bipipe i may return.  A Bipipe whose shutdown has started
\* fails fast.  An active one returns the next bytes of its stream, at most
\* BufferSize of them, and with them or on their own end-of-stream (the peer
\* may end its stream anywhere up to MaxData bytes) or a transport error; as
\* long as the peer sends nothing the Read blocks, which is the action not
\* being taken.  A Bipipe that breaks the io.Reader contract returns zero
\* bytes and no error.
ReadOutcomes(i) ==
    IF pst[i] # "active"
    THEN {[n |-> 0, e |-> ErrClosed(i), f |-> 0]}
    ELSE LET most == Min(BufferSize, MaxData - rd[i])
         IN  {[n |-> n, e |-> Nil, f |-> 0] : n \in 1..most}
             \cup {[n |-> n, e |-> EOF, f |-> 0] : n \in 0..most}
             \cup (IF faults < MaxFaults
                   THEN {[n |-> n, e |-> Err("read", i), f |-> 1] : n \in 0..most}
                   ELSE {})
             \cup (IF faulty THEN {[n |-> 0, e |-> Nil, f |-> 0]} ELSE {})

\* What one Write of nbr bytes to Bipipe j may return.  A Bipipe that is shut
\* down or whose write half is closed fails; an active one takes everything, or
\* fewer bytes together with a transport error.  A Bipipe that breaks the
\* io.Writer contract takes fewer bytes and reports no error.
WriteOutcomes(j, nbr) ==
    IF pst[j] # "active" \/ writeClosed[j]
    THEN {[n |-> 0, e |-> ErrClosed(j), f |-> 0]}
    ELSE {[n |-> nbr, e |-> Nil, f |-> 0]}
         \cup (IF faults < MaxFaults
               THEN {[n |-> k, e |-> Err("write", j), f |-> 1] : k \in 0..(nbr - 1)}
               ELSE {})
         \cup (IF faulty THEN {[n |-> k, e |-> Nil, f |-> 0] : k \in 0..(nbr - 1)} ELSE {})

\* What CloseWrite on Bipipe j may return
CloseWriteOutcomes(j) ==
    IF pst[j] # "active"
    THEN {[e |-> ErrClosed(j), f |-> 0]}
    ELSE {[e |-> Nil, f |-> 0]}
         \cup (IF faults < MaxFaults THEN {[e |-> Err("closewrite", j), f |-> 1]} ELSE {})

obsVars == <<firstErr, errFirst>>

\* history: an error is observed, by a forwarding worker or by someone else
Observe(e, byWorker) ==
    /\ firstErr' = IF firstErr = Nil THEN e ELSE firstErr
    /\ errFirst' = (errFirst \/ (byWorker /\ ~bbScheduled))

\* StartShutdown as it would be if it dropped the cause it is given
StartShutdownNoCause(e) ==
    IF ~bbScheduled
    THEN /\ bbScheduled' = TRUE
         /\ bbStarted' = TRUE
         /\ bbErr' = Nil
         /\ completionErr' = Nil
         /\ finalErr' = Nil
         /\ hpc' = "start0"
    ELSE UNCHANGED <<bbScheduled, bbStarted, bbErr, completionErr, finalErr, hpc>>

\* StartShutdown as it would be if the cause of a later call replaced the
\* cause of the first one
StartShutdownLastWins(e) ==
    IF ~bbScheduled
    THEN /\ bbScheduled' = TRUE
         /\ bbStarted' = TRUE
         /\ bbErr' = e
         /\ completionErr' = e
         /\ finalErr' = e
         /\ hpc' = "start0"
    ELSE /\ bbErr' = e
         /\ completionErr' = e
         /\ finalErr' = e
         /\ UNCHANGED <<bbScheduled, bbStarted, hpc>>

\* Helper.StartShutdown on the bridge: only the first call schedules the
\* shutdown and records its cause; the bridge never pauses shutdown, so the
\* shutdown starts at once and HandleOnceShutdown gets its own goroutine.
StartShutdown(e) ==
    IF ~bbScheduled
    THEN /\ bbScheduled' = TRUE
         /\ bbStarted' = TRUE
         /\ bbErr' = e
         /\ completionErr' = e
         /\ finalErr' = e
         /\ hpc' = "start0"
    ELSE UNCHANGED <<bbScheduled, bbStarted, bbErr, completionErr, finalErr, hpc>>

helperVars == <<bbScheduled, bbStarted, bbErr, completionErr, finalErr, hpc>>
cfgVars == <<publishProgress, isWriterTo, isReaderFrom, faulty>>
pipeShutVars == <<pst, pcause, pfinal>>

\* Flush as it would be if the count of io.Copy were thrown away
FlushNothing(w, total) == nbWritten

\* the bytes io.Copy counted are added to the edge when it returns
Flush(w, total) ==
    IF total > 0
    THEN [nbWritten EXCEPT ![Other(w)] = @ + total]
    ELSE nbWritten

\* src.Read and the checks that follow it (buffered loop), or the read half of
\* one round of io.Copy
WorkerRead(w) ==
    /\ ~crashed
    /\ pc[w] = "read"
    /\ \E o \in ReadOutcomes(w) :
         /\ rd' = [rd EXCEPT ![w] = @ + o.n]
         /\ faults' = faults + o.f
         /\ eofSeen' = [eofSeen EXCEPT ![w] = @ \/ (o.e = EOF)]
         /\ IF o.e \notin {Nil, EOF} THEN Observe(o.e, TRUE) ELSE UNCHANGED obsVars
         /\ violated' = [violated EXCEPT ![w] = @ \/ (o.n = 0 /\ o.e = Nil)]
         /\ IF o.n = 0 /\ o.e = Nil
            THEN \* zero bytes and no error
                 /\ IF useCopy(w)
                    THEN UNCHANGED <<pc, crashed>>
                    ELSE /\ crashed' = TRUE
                         /\ pc' = [pc EXCEPT ![w] = "panic"]
                 /\ UNCHANGED <<buf, rerr, err, nbWritten>>
            ELSE /\ buf' = [buf EXCEPT ![w] = [k \in 1..o.n |-> Byte(w, rd[w] + k)]]
                 /\ rerr' = [rerr EXCEPT ![w] = o.e]
                 /\ UNCHANGED crashed
                 /\ IF o.n > 0
                    THEN /\ pc' = [pc EXCEPT ![w] = "write"]
                         /\ UNCHANGED <<err, nbWritten>>
                    ELSE /\ nbWritten' = IF useCopy(w) THEN Flush(w, copied[w]) ELSE nbWritten
                         /\ IF o.e # EOF
                            THEN /\ err' = [err EXCEPT ![w] = o.e]
                                 /\ pc' = [pc EXCEPT ![w] = "report"]
                            ELSE /\ pc' = [pc EXCEPT ![w] = "closewrite"]
                                 /\ UNCHANGED err
    /\ UNCHANGED <<cfgVars, sink, writeClosed, pipeShutVars, forwarderWg,
                   copied, wpc, helperVars, bbDone, cwCalled, wroteAfterClose, extCalls>>
    /\ UNCHANGED <<sessionVars, otherVars>>

\* BufferedExit as it would be if the loop went on after a failed Write
BufferedExitIgnoreWerr(re, we) ==
    IF re # Nil /\ re # EOF THEN [to |-> "report", e |-> re]
    ELSE IF re = EOF THEN [to |-> "closewrite", e |-> Nil]
    ELSE [to |-> "read", e |-> Nil]

\* the way the buffered loop leaves one round, given the round's rerr and werr
BufferedExit(re, we) ==
    IF re # Nil /\ re # EOF THEN [to |-> "report", e |-> re]
    ELSE IF we # Nil THEN [to |-> "report", e |-> we]
    ELSE IF re = EOF THEN [to |-> "closewrite", e |-> Nil]
    ELSE [to |-> "read", e |-> Nil]

\* CopyExit as it would be if every read error counted as end-of-stream
CopyExitErrAsEOF(re, we, short) ==
    IF we # Nil THEN [to |-> "report", e |-> we]
    ELSE IF short THEN [to |-> "report", e |-> ErrShortWrite]
    ELSE IF re # Nil THEN [to |-> "closewrite", e |-> Nil]
    ELSE [to |-> "read", e |-> Nil]

\* the way io.Copy leaves one round, given the round's read error, write
\* error, and whether the write was short
CopyExit(re, we, short) ==
    IF we # Nil THEN [to |-> "report", e |-> we]
    ELSE IF short THEN [to |-> "report", e |-> ErrShortWrite]
    ELSE IF re # Nil /\ re # EOF THEN [to |-> "report", e |-> re]
    ELSE IF re = EOF THEN [to |-> "closewrite", e |-> Nil]
    ELSE [to |-> "read", e |-> Nil]

\* dst.Write and the checks that follow it (buffered loop), or the write half
\* of one round of io.Copy
WorkerWrite(w) ==
    /\ ~crashed
    /\ pc[w] = "write"
    /\ \E o \in WriteOutcomes(Other(w), Len(buf[w])) :
         LET dst == Other(w)
             nbr == Len(buf[w])
             short == o.e = Nil /\ o.n < nbr
             x == IF useCopy(w) THEN CopyExit(rerr[w], o.e, short)
                  ELSE BufferedExit(rerr[w], o.e)
         IN  /\ sink' = [sink EXCEPT ![dst] = @ \o SubSeq(buf[w], 1, o.n)]
             /\ faults' = faults + o.f
             /\ wroteAfterClose' = (wroteAfterClose \/ cwCalled[dst])
             /\ violated' = [violated EXCEPT ![w] = @ \/ short]
             /\ IF o.e # Nil THEN Observe(o.e, TRUE)
                ELSE IF short /\ useCopy(w) THEN Observe(ErrShortWrite, TRUE)
                ELSE UNCHANGED obsVars
             /\ IF short /\ ~useCopy(w)
                THEN \* fewer bytes than requested and no error
                     /\ crashed' = TRUE
                     /\ pc' = [pc EXCEPT ![w] = "panic"]
                     /\ UNCHANGED <<nbWritten, copied, err>>
                ELSE /\ UNCHANGED crashed
                     /\ pc' = [pc EXCEPT ![w] = x.to]
                     /\ err' = [err EXCEPT ![w] = x.e]
                     /\ IF useCopy(w)
                        THEN /\ copied' = [copied EXCEPT ![w] = @ + o.n]
                             /\ nbWritten' = IF x.to = "read" THEN nbWritten
                                             ELSE Flush(w, copied[w] + o.n)
                        ELSE /\ nbWritten' = [nbWritten EXCEPT ![dst] = @ + o.n]
                             /\ UNCHANGED copied
    /\ UNCHANGED <<cfgVars, rd, eofSeen, writeClosed, pipeShutVars, forwarderWg,
                   buf, rerr, wpc, helperVars, bbDone, cwCalled, extCalls>>
    /\ UNCHANGED <<sessionVars, otherVars>>

\* "if err == nil { err = dst.CloseWrite() }", and forwarderWg.Done() when
\* that succeeds
WorkerCloseWrite(w) ==
    /\ ~crashed
    /\ pc[w] = "closewrite"
    /\ \E o \in CloseWriteOutcomes(Other(w)) :
         /\ cwCalled' = [cwCalled EXCEPT ![Other(w)] = TRUE]
         /\ faults' = faults + o.f
         /\ err' = [err EXCEPT ![w] = o.e]
         /\ IF o.e = Nil
            THEN /\ writeClosed' = [writeClosed EXCEPT ![Other(w)] = TRUE]
                 /\ forwarderWg' = forwarderWg - 1
                 /\ pc' = [pc EXCEPT ![w] = "done"]
                 /\ UNCHANGED obsVars
            ELSE /\ Observe(o.e, TRUE)
                 /\ pc' = [pc EXCEPT ![w] = "report"]
                 /\ UNCHANGED <<writeClosed, forwarderWg>>
    /\ UNCHANGED <<cfgVars, rd, eofSeen, sink, pipeShutVars, nbWritten, buf, rerr, violated,
                   copied, wpc, helperVars, bbDone, crashed, wroteAfterClose, extCalls>>
    /\ UNCHANGED <<sessionVars, otherVars>>

\* WorkerReport as it would be if a worker that finds the bridge already
\* shutting down returned without forwarderWg.Done()
WorkerReportNoDone(w) ==
    /\ ~crashed
    /\ pc[w] = "report"
    /\ IF bbStarted
       THEN /\ pc' = [pc EXCEPT ![w] = "done"]
            /\ UNCHANGED forwarderWg
       ELSE /\ pc' = [pc EXCEPT ![w] = "start"]
            /\ UNCHANGED forwarderWg
    /\ UNCHANGED <<faults, cfgVars, rd, eofSeen, sink, writeClosed, pipeShutVars, nbWritten,
                   buf, rerr, violated, err, copied, wpc, helperVars, bbDone, crashed,
                   obsVars, cwCalled, wroteAfterClose, extCalls>>
    /\ UNCHANGED <<sessionVars, otherVars>>

\* "if bb.IsStartedShutdown()": a worker that failed finds the bridge already
\* shutting down and finishes, or goes on to start the shutdown
WorkerReport(w) ==
    /\ ~crashed
    /\ pc[w] = "report"
    /\ IF bbStarted
       THEN /\ forwarderWg' = forwarderWg - 1
            /\ pc' = [pc EXCEPT ![w] = "done"]
       ELSE /\ pc' = [pc EXCEPT ![w] = "start"]
            /\ UNCHANGED forwarderWg
    /\ UNCHANGED <<faults, cfgVars, rd, eofSeen, sink, writeClosed, pipeShutVars, nbWritten,
                   buf, rerr, violated, err, copied, wpc, helperVars, bbDone, crashed, obsVars,
                   cwCalled, wroteAfterClose, extCalls>>
    /\ UNCHANGED <<sessionVars, otherVars>>

\* "bb.StartShutdown(err)" and forwarderWg.Done()
WorkerStartShutdown(w) ==
    /\ ~crashed
    /\ pc[w] = "start"
    /\ StartShutdown(err[w])
    /\ forwarderWg' = forwarderWg - 1
    /\ pc' = [pc EXCEPT ![w] = "done"]
    /\ UNCHANGED <<faults, cfgVars, rd, eofSeen, sink, writeClosed, pipeShutVars, nbWritten,
                   buf, rerr, violated, err, copied, wpc, bbDone, crashed, obsVars, cwCalled,
                   wroteAfterClose, extCalls>>
    /\ UNCHANGED <<sessionVars, otherVars>>

\* the goroutine of NewBipipeBridger: forwarderWg.Wait(); StartShutdown(nil)
JoinForwarders ==
    /\ ~crashed
    /\ wpc = "wait"
    /\ forwarderWg = 0
    /\ StartShutdown(Nil)
    /\ wpc' = "done"
    /\ UNCHANGED <<faults, cfgVars, rd, eofSeen, sink, writeClosed, pipeShutVars, nbWritten,
                   forwarderWg, pc, buf, rerr, violated, err, copied, bbDone, crashed, obsVars,
                   cwCalled, wroteAfterClose, extCalls>>
    /\ UNCHANGED <<sessionVars, otherVars>>

\* HandleOnceShutdown, first loop: edge.pipe.StartShutdown(completionErr)
HandlerStartPipe(i) ==
    /\ ~crashed
    /\ hpc = (IF i = 0 THEN "start0" ELSE "start1")
    /\ IF pst[i] = "active"
       THEN /\ pst' = [pst EXCEPT ![i] = "shutting"]
            /\ pcause' = [pcause EXCEPT ![i] = completionErr]
       ELSE UNCHANGED <<pst, pcause>>
    /\ hpc' = (IF i = 0 THEN "start1" ELSE "join")
    /\ UNCHANGED <<faults, cfgVars, rd, eofSeen, sink, writeClosed, pfinal, nbWritten,
                   forwarderWg, pc, buf, rerr, violated, err, copied, wpc, bbScheduled,
                   bbStarted, bbDone, bbErr, finalErr, completionErr, crashed, obsVars,
                   cwCalled, wroteAfterClose, extCalls>>
    /\ UNCHANGED <<sessionVars, otherVars>>

\* HandleOnceShutdown: bb.forwarderWg.Wait()
HandlerJoin ==
    /\ ~crashed
    /\ hpc = "join"
    /\ forwarderWg = 0
    /\ hpc' = "wait0"
    /\ UNCHANGED <<faults, cfgVars, rd, eofSeen, sink, writeClosed, pipeShutVars, nbWritten,
                   forwarderWg, pc, buf, rerr, violated, err, copied, wpc, bbScheduled,
                   bbStarted, bbDone, bbErr, finalErr, completionErr, crashed, obsVars,
                   cwCalled, wroteAfterClose, extCalls>>
    /\ UNCHANGED <<sessionVars, otherVars>>

\* HandleOnceShutdown, second loop: err := edge.pipe.WaitShutdown()
HandlerWaitPipe(i) ==
    /\ ~crashed
    /\ hpc = (IF i = 0 THEN "wait0" ELSE "wait1")
    /\ pst[i] = "done"
    /\ finalErr' = IF pfinal[i] # Nil /\ finalErr = Nil THEN pfinal[i] ELSE finalErr
    /\ IF pfinal[i] # Nil THEN Observe(pfinal[i], FALSE) ELSE UNCHANGED obsVars
    /\ hpc' = (IF i = 0 THEN "wait1" ELSE "return")
    /\ UNCHANGED <<faults, cfgVars, rd, eofSeen, sink, writeClosed, pipeShutVars, nbWritten,
                   forwarderWg, pc, buf, rerr, violated, err, copied, wpc, bbScheduled,
                   bbStarted, bbDone, bbErr, completionErr, crashed,
                   cwCalled, wroteAfterClose, extCalls>>
    /\ UNCHANGED <<sessionVars, otherVars>>

\* HandleOnceShutdown returns finalErr; the helper stores it as the final
\* status and declares the shutdown done
HandlerReturn ==
    /\ ~crashed
    /\ hpc = "return"
    /\ bbErr' = finalErr
    /\ bbDone' = TRUE
    /\ hpc' = "done"
    /\ UNCHANGED <<faults, cfgVars, rd, eofSeen, sink, writeClosed, pipeShutVars, nbWritten,
                   forwarderWg, pc, buf, rerr, violated, err, copied, wpc, bbScheduled,
                   bbStarted, finalErr, completionErr, crashed, obsVars,
                   cwCalled, wroteAfterClose, extCalls>>
    /\ UNCHANGED <<sessionVars, otherVars>>

\* the shutdown handler of a bridged Bipipe: close the connection; the final
\* status is the advisory cause, or the error of the close when that is nil
PipeHandleOnceShutdown(i) ==
    /\ ~crashed
    /\ pst[i] = "shutting"
    /\ \E o \in {[e |-> Nil, f |-> 0]}
                 \cup (IF faults < MaxFaults THEN {[e |-> Err("close", i), f |-> 1]} ELSE {}) :
         /\ pfinal' = [pfinal EXCEPT ![i] = IF pcause[i] = Nil THEN o.e ELSE pcause[i]]
         /\ faults' = faults + o.f
    /\ pst' = [pst EXCEPT ![i] = "done"]
    /\ UNCHANGED <<cfgVars, rd, eofSeen, sink, writeClosed, pcause, nbWritten,
                   forwarderWg, pc, buf, rerr, violated, err, copied, wpc, helperVars, bbDone,
                   crashed, obsVars, cwCalled, wroteAfterClose, extCalls>>
    /\ UNCHANGED <<sessionVars, otherVars>>

\* the owner of the bridge calls StartShutdown (Close and Shutdown are
\* StartShutdown followed by WaitShutdown)
ExternalStartShutdown ==
    /\ ~crashed
    /\ ~bbDone
    /\ extCalls < MaxExtCalls
    /\ extCalls' = extCalls + 1
    /\ \E e \in {Nil, Err("external", 0)} :
         /\ StartShutdown(e)
         /\ IF e # Nil THEN Observe(e, FALSE) ELSE UNCHANGED obsVars
    /\ UNCHANGED <<faults, cfgVars, rd, eofSeen, sink, writeClosed, pipeShutVars, nbWritten,
                   forwarderWg, pc, buf, rerr, violated, err, copied, wpc, bbDone, crashed,
                   cwCalled, wroteAfterClose>>
    /\ UNCHANGED <<sessionVars, otherVars>>

\* The bridges explored: publishProgress, and what the Bipipe of edge 0
\* implements besides Bipipe (the Bipipe of edge 1 is a plain one).  They give
\* two buffered workers, one io.Copy worker and one buffered, two io.Copy
\* workers.
Configs ==
    {[publishProgress |-> TRUE, writerTo |-> TRUE, readerFrom |-> TRUE],
     [publishProgress |-> FALSE, writerTo |-> TRUE, readerFrom |-> FALSE],
     [publishProgress |-> FALSE, writerTo |-> TRUE, readerFrom |-> TRUE]}

\* the state NewBipipeBridger returns in
BridgeInit ==
    /\ \E c \in Configs :
         /\ publishProgress = c.publishProgress
         /\ isWriterTo = [i \in Edges |-> i = 0 /\ c.writerTo]
         /\ isReaderFrom = [i \in Edges |-> i = 0 /\ c.readerFrom]
    /\ rd = [i \in Edges |-> 0]
    /\ sink = [i \in Edges |-> <<>>]
    /\ writeClosed = [i \in Edges |-> FALSE]
    /\ pst = [i \in Edges |-> "active"]
    /\ pcause = [i \in Edges |-> Nil]
    /\ pfinal = [i \in Edges |-> Nil]
    /\ nbWritten = [i \in Edges |-> 0]
    /\ forwarderWg = 2
    /\ pc = [i \in Edges |-> "read"]
    /\ buf = [i \in Edges |-> <<>>]
    /\ rerr = [i \in Edges |-> Nil]
    /\ err = [i \in Edges |-> Nil]
    /\ copied = [i \in Edges |-> 0]
    /\ wpc = "wait"
    /\ bbScheduled = FALSE
    /\ bbStarted = FALSE
    /\ bbDone = FALSE
    /\ bbErr = Nil
    /\ hpc = "idle"
    /\ finalErr = Nil
    /\ completionErr = Nil
    /\ crashed = FALSE
    /\ firstErr = Nil
    /\ errFirst = FALSE
    /\ violated = [i \in Edges |-> FALSE]
    /\ cwCalled = [i \in Edges |-> FALSE]
    /\ wroteAfterClose = FALSE
    /\ eofSeen = [i \in Edges |-> FALSE]
    /\ extCalls = 0
    /\ faults = 0

BridgeNext ==
    \/ \E w \in Edges : WorkerRead(w)
    \/ \E w \in Edges : WorkerWrite(w)
    \/ \E w \in Edges : WorkerCloseWrite(w)
    \/ \E w \in Edges : WorkerReport(w)
    \/ \E w \in Edges : WorkerStartShutdown(w)
    \/ JoinForwarders
    \/ \E i \in Edges : HandlerStartPipe(i)
    \/ HandlerJoin
    \/ \E i \in Edges : HandlerWaitPipe(i)
    \/ HandlerReturn
    \/ \E i \in Edges : PipeHandleOnceShutdown(i)
    \/ ExternalStartShutdown

(***************************************************************************)
(* Part 2.  The server side of one session                                 *)
(***************************************************************************)
\* a string is a sequence of characters
RPrefix == <<"R", ":">>
Colon == <<":">>
Unknown == <<"u", "n", "k", "n", "o", "w", "n">>
Tcp == <<"t", "c", "p">>

\* ChannelEndpointDescriptor.String
EndpointString(d) ==
    LET typeName == IF d.Type = <<>> THEN Unknown ELSE d.Type
        pathName == d.Path
    IN  <<"<">> \o typeName \o Colon \o pathName \o <<">">>

\* ChannelDescriptor.String
ChdString(d) ==
    LET reversePrefix == IF d.Reverse THEN RPrefix ELSE <<>>
    IN  reversePrefix \o EndpointString(d.Stub) \o Colon \o EndpointString(d.Skeleton)

\* the literal lit occurs in s at position k
OccursAt(lit, s, k) ==
    /\ k + Len(lit) - 1 <= Len(s)
    /\ \A j \in 1..Len(lit) : s[k + j - 1] = lit[j]

\* Regexp.MatchString for the patterns "lit" and "^lit" of literal characters:
\* a match anywhere in s, or at its start
MatchString(p, s) ==
    \E k \in 1..(Len(s) + 1) : (p.anchored => k = 1) /\ OccursAt(p.lit, s, k)

RECURSIVE HasAccessFrom(_, _, _)
\* the loop of User.HasAccess from the k-th pattern on
HasAccessFrom(addrs, addr, k) ==
    IF k > Len(addrs) THEN FALSE
    ELSE IF MatchString(addrs[k], addr) THEN TRUE
    ELSE HasAccessFrom(addrs, addr, k + 1)

\* HasAccess as it would be if only the first pattern were tried
HasAccessFirstOnly(u, addr) ==
    Len(u.Addrs) > 0 /\ MatchString(u.Addrs[1], addr)

\* User.HasAccess
HasAccess(u, addr) == HasAccessFrom(u.Addrs, addr, 1)

\* ---- the values explored
Pattern(anchored, lit) == [anchored |-> anchored, lit |-> lit]
\* UserAllowAll, "^R:", ":2>", "^<tcp:1>:<tcp:1>"
AllowAll == Pattern(FALSE, <<>>)
AllowReverse == Pattern(TRUE, RPrefix)
AllowPath2 == Pattern(FALSE, <<":", "2", ">">>)
AllowOne == Pattern(TRUE, <<"<", "t", "c", "p", ":", "1", ">", ":", "<", "t", "c", "p", ":", "1", ">">>)

AddrLists == {<<>>, <<AllowAll>>, <<AllowOne>>, <<AllowPath2, AllowReverse>>}

\* the nil *User
NoUser == [Name |-> "", Pass |-> "", Addrs |-> <<>>]
UserOf(addrs) == [Name |-> "u", Pass |-> "p", Addrs |-> addrs]

Endpoint(path) == [Type |-> Tcp, Path |-> <<path>>]
Descriptor(rv, p) == [Reverse |-> rv, Stub |-> Endpoint("1"), Skeleton |-> Endpoint(p)]
Descriptors == {Descriptor(FALSE, "1"), Descriptor(FALSE, "2"), Descriptor(TRUE, "1")}

DescriptorLists == UNION {[1..k -> Descriptors] : k \in 0..MaxChannels}

Request(type, valid, chds) == [Type |-> type, valid |-> valid, chds |-> chds]
\* the request a receive from the closed request channel yields
NilRequest == Request("<nil>", FALSE, <<>>)
\* no request received yet
NoRequest == Request("<none>", FALSE, <<>>)
Ping == Request("ping", TRUE, <<>>)
Junk == Request("junk", TRUE, <<>>)
BadConfig == Request("config", FALSE, <<>>)
ConfigRequests == {Request("config", TRUE, chds) : chds \in DescriptorLists}
\* what a client may send first, and what it may send after that
FirstRequests == ConfigRequests \cup {Ping, Junk, BadConfig}
LaterRequests == {Ping, Junk}


shutVars == <<shutdownPauseCount, isScheduledShutdown, isStartedShutdown,
              isDoneShutdown, shutdownErr>>
clientVars == <<sshRequests, newSSHChannels, nSent, nOpened, connClosed, firstType>>
adminVars == <<users, reverseOk, ctxDone>>
serveVars == <<reqLoop, chanLoop, pingsServed, chansServed>>
cascadeVars == <<shutdownHandlerDone, accepting>>

NoReply == [ok |-> FALSE, payload |-> "<none>"]

\* ShutdownHelper.StartShutdown on the session: the first call records the
\* cause and schedules the shutdown, which starts at once unless it is paused
SessionStartShutdown(e) ==
    IF ~isScheduledShutdown
    THEN /\ shutdownErr' = e
         /\ isScheduledShutdown' = TRUE
         /\ isStartedShutdown' = (shutdownPauseCount = 0)
    ELSE UNCHANGED <<shutdownErr, isScheduledShutdown, isStartedShutdown>>

\* ServerSSHSession.Run up to the SSH handshake: PauseShutdown
RunPause ==
    /\ ~panicked
    /\ UNCHANGED cascadeVars
    /\ spc = "run"
    /\ IF isStartedShutdown
       THEN /\ spc' = "closed"
            /\ serr' = "ShutdownStarted"
            /\ UNCHANGED shutdownPauseCount
       ELSE /\ shutdownPauseCount' = shutdownPauseCount + 1
            /\ spc' = "handshake"
            /\ UNCHANGED serr
    /\ UNCHANGED <<adminVars, sessions, user, r, chdIndex, sshConn, clientVars, elapsed,
                   listeners, reply, serveVars, isScheduledShutdown, isStartedShutdown,
                   isDoneShutdown, shutdownErr, panicked>>
    /\ UNCHANGED <<bridgeVars, otherVars, timedOut>>

\* ServerSSHSession.Run: the SSH handshake, which ends when the client
\* completes or abandons it and in which authUser validates the name and
\* password the client presents; then ResumeShutdown, or ResumeAndShutdown
\* when the handshake failed
RunHandshake ==
    /\ ~panicked
    /\ UNCHANGED cascadeVars
    /\ spc = "handshake"
    /\ shutdownPauseCount' = shutdownPauseCount - 1
    /\ \E name \in {"u", "x"}, pass \in {"p", "q"} :
          LET authOk == users = NoUser \/ (name = users.Name /\ pass = users.Pass)
          IN  IF authOk /\ ~connClosed
              THEN /\ sessions' = IF users = NoUser THEN sessions ELSE users
                   /\ spc' = "start"
                   /\ isStartedShutdown' =
                         (isStartedShutdown
                             \/ (shutdownPauseCount - 1 = 0 /\ isScheduledShutdown))
                   /\ UNCHANGED <<serr, shutdownErr, isScheduledShutdown>>
              ELSE /\ shutdownErr' =
                         IF isScheduledShutdown THEN shutdownErr ELSE "HandshakeFailed"
                   /\ isScheduledShutdown' = TRUE
                   /\ isStartedShutdown' =
                         (isStartedShutdown \/ shutdownPauseCount - 1 = 0)
                   /\ serr' = "HandshakeFailed"
                   /\ spc' = "closed"
                   /\ UNCHANGED sessions
    /\ UNCHANGED <<adminVars, user, r, chdIndex, sshConn, clientVars, elapsed, listeners,
                   reply, serveVars, isDoneShutdown, panicked>>
    /\ UNCHANGED <<bridgeVars, otherVars, timedOut>>

\* startWithSSHConn up to the wait for the first request: PauseShutdown, and
\* the user of this connection is pulled from the session map
StartSession ==
    /\ ~panicked
    /\ UNCHANGED cascadeVars
    /\ spc = "start"
    /\ IF isStartedShutdown
       THEN /\ spc' = "failed"
            /\ serr' = "ShutdownStarted"
            /\ UNCHANGED <<shutdownPauseCount, sshConn, user, sessions>>
       ELSE /\ shutdownPauseCount' = shutdownPauseCount + 1
            /\ sshConn' = TRUE
            /\ user' = IF users # NoUser THEN sessions ELSE NoUser
            /\ sessions' = IF users # NoUser THEN NoUser ELSE sessions
            /\ spc' = "receive"
            /\ UNCHANGED serr
    /\ UNCHANGED <<adminVars, r, chdIndex, clientVars, elapsed, listeners, reply,
                   serveVars, isScheduledShutdown, isStartedShutdown, isDoneShutdown,
                   shutdownErr, panicked>>
    /\ UNCHANGED <<bridgeVars, otherVars, timedOut>>

\* cfgCtx is done: the context of the server is, or the timeout has run out
cfgCtxDone == ctxDone \/ elapsed >= ConfigTimeout

\* a second passes while the session waits for its first request; the waiting
\* goroutine reacts to the end of its timeout before the next second passes
Tick ==
    /\ ~panicked
    /\ UNCHANGED cascadeVars
    /\ spc = "receive"
    /\ ~cfgCtxDone
    /\ elapsed' = elapsed + 1
    /\ UNCHANGED <<adminVars, sessions, spc, user, r, chdIndex, serr, sshConn, clientVars,
                   listeners, reply, serveVars, shutVars, panicked>>
    /\ UNCHANGED <<bridgeVars, otherVars, timedOut>>

\* receiveSSHRequest(cfgCtx): a request from the channel (nil when the channel
\* is closed), or the error of the context; then cfgCtxCancel()
Receive ==
    /\ ~panicked
    /\ UNCHANGED cascadeVars
    /\ spc = "receive"
    /\ \/ /\ sshRequests # <<>>
          /\ r' = Head(sshRequests)
          /\ sshRequests' = Tail(sshRequests)
          /\ spc' = "validate"
          /\ UNCHANGED <<serr, shutdownErr, isScheduledShutdown, isStartedShutdown>>
       \/ /\ sshRequests = <<>>
          /\ connClosed
          /\ r' = NilRequest
          /\ spc' = "validate"
          /\ UNCHANGED <<sshRequests, serr, shutdownErr, isScheduledShutdown,
                         isStartedShutdown>>
       \/ /\ cfgCtxDone
          /\ serr' = "RequestNotReceived"
          /\ SessionStartShutdown("RequestNotReceived")
          /\ spc' = "return"
          /\ UNCHANGED <<r, sshRequests>>
    /\ elapsed' = 0
    /\ timedOut' = (r' = NoRequest /\ ~ctxDone)
    /\ firstType' = r'.Type
    /\ UNCHANGED <<adminVars, sessions, user, chdIndex, sshConn, newSSHChannels, nSent,
                   nOpened, connClosed, listeners, reply, serveVars,
                   shutdownPauseCount, isDoneShutdown, panicked>>
    /\ UNCHANGED <<bridgeVars, otherVars>>

\* ReverseDenied as it would be if only the first descriptor were examined
ReverseDeniedFirstOnly(chds) ==
    Len(chds) > 0 /\ chds[1].Reverse /\ ~reverseOk

\* "confirm reverse tunnels are allowed": some descriptor is a reverse one and
\* the server has reverse mode disabled
ReverseDenied(chds) ==
    \E k \in 1..Len(chds) : chds[k].Reverse /\ ~reverseOk

\* the checks startWithSSHConn makes on the request it received, in their
\* order: "nil" or the error it fails with
ConfigCheck(req, u) ==
    IF req.Type # "config" THEN "ExpectingConfig"
    ELSE IF ~req.valid THEN "InvalidEncoding"
    ELSE IF ReverseDenied(req.chds) THEN "ReverseNotEnabled"
    ELSE IF u # NoUser /\ \E k \in 1..Len(req.chds) : ~HasAccess(u, ChdString(req.chds[k]))
         THEN "AccessDenied"
    ELSE "nil"

\* failed(err): an error reply that carries the text of err, and StartShutdown(err)
Failed(e) ==
    /\ reply' = [ok |-> FALSE, payload |-> e]
    /\ serr' = e
    /\ SessionStartShutdown(e)
    /\ spc' = "return"

\* the checks on the request received; a nil request is dereferenced
Validate ==
    /\ ~panicked
    /\ UNCHANGED cascadeVars
    /\ spc = "validate"
    /\ IF r = NilRequest
       THEN /\ panicked' = TRUE
            /\ spc' = "panic"
            /\ UNCHANGED <<reply, serr, chdIndex, shutdownErr, isScheduledShutdown,
                           isStartedShutdown>>
       ELSE /\ UNCHANGED panicked
            /\ IF ConfigCheck(r, user) # "nil"
               THEN /\ Failed(ConfigCheck(r, user))
                    /\ UNCHANGED chdIndex
               ELSE /\ spc' = "listen"
                    /\ chdIndex' = 1
                    /\ UNCHANGED <<reply, serr, shutdownErr, isScheduledShutdown,
                                   isStartedShutdown>>
    /\ UNCHANGED <<adminVars, sessions, user, r, sshConn, clientVars, elapsed, listeners,
                   serveVars, shutdownPauseCount, isDoneShutdown>>
    /\ UNCHANGED <<bridgeVars, otherVars, timedOut>>

\* "set up reverse port forwarding": one round of the loop, which starts the
\* stub listener of a reverse descriptor
Listen ==
    /\ ~panicked
    /\ UNCHANGED shutdownHandlerDone
    /\ spc = "listen"
    /\ IF chdIndex > Len(r.chds)
       THEN /\ spc' = "reply"
            /\ UNCHANGED <<chdIndex, listeners, accepting, reply, serr, shutdownErr,
                           isScheduledShutdown, isStartedShutdown>>
       ELSE IF r.chds[chdIndex].Reverse
       THEN \/ /\ listeners' = listeners \cup {chdIndex}
               /\ accepting' = accepting \cup {chdIndex}
               /\ chdIndex' = chdIndex + 1
               /\ UNCHANGED <<spc, reply, serr, shutdownErr, isScheduledShutdown,
                              isStartedShutdown>>
            \/ /\ Failed("ListenerStart")
               /\ UNCHANGED <<chdIndex, listeners, accepting>>
       ELSE /\ chdIndex' = chdIndex + 1
            /\ UNCHANGED <<spc, listeners, accepting, reply, serr, shutdownErr,
                           isScheduledShutdown, isStartedShutdown>>
    /\ UNCHANGED <<adminVars, sessions, user, r, sshConn, clientVars, elapsed,
                   serveVars, shutdownPauseCount, isDoneShutdown, panicked>>
    /\ UNCHANGED <<bridgeVars, otherVars, timedOut>>

\* "success!": the reply to the config request, and the goroutines that serve
\* the session
Reply ==
    /\ ~panicked
    /\ UNCHANGED cascadeVars
    /\ spc = "reply"
    /\ \/ /\ ~connClosed
          /\ reply' = [ok |-> TRUE, payload |-> ""]
          /\ reqLoop' = TRUE
          /\ chanLoop' = TRUE
          /\ UNCHANGED <<serr, shutdownErr, isScheduledShutdown, isStartedShutdown>>
       \/ /\ connClosed \/ ctxDone
          /\ serr' = "ReplySend"
          /\ SessionStartShutdown("ReplySend")
          /\ UNCHANGED <<reply, reqLoop, chanLoop>>
    /\ spc' = "return"
    /\ UNCHANGED <<adminVars, sessions, user, r, chdIndex, sshConn, clientVars, elapsed,
                   listeners, pingsServed, chansServed, shutdownPauseCount,
                   isDoneShutdown, panicked>>
    /\ UNCHANGED <<bridgeVars, otherVars, timedOut>>

\* startWithSSHConn returns: the deferred ResumeShutdown, and its local
\* variables are gone
Return ==
    /\ ~panicked
    /\ UNCHANGED cascadeVars
    /\ spc = "return"
    /\ shutdownPauseCount' = shutdownPauseCount - 1
    /\ isStartedShutdown' =
          (isStartedShutdown \/ (shutdownPauseCount - 1 = 0 /\ isScheduledShutdown))
    /\ spc' = IF serr = "nil" THEN "running" ELSE "failed"
    /\ user' = NoUser
    /\ r' = NoRequest
    /\ chdIndex' = 0
    /\ UNCHANGED <<adminVars, sessions, serr, sshConn, clientVars,
                   elapsed, listeners, reply, serveVars, isScheduledShutdown,
                   isDoneShutdown, shutdownErr, panicked>>
    /\ UNCHANGED <<bridgeVars, otherVars, timedOut>>

\* Run after a failed startWithSSHConn: s.Shutdown(err)
RunFinish ==
    /\ ~panicked
    /\ UNCHANGED cascadeVars
    /\ spc = "failed"
    /\ SessionStartShutdown(serr)
    /\ spc' = "closed"
    /\ UNCHANGED <<adminVars, sessions, user, r, chdIndex, serr, sshConn, clientVars,
                   elapsed, listeners, reply, serveVars, shutdownPauseCount,
                   isDoneShutdown, panicked>>
    /\ UNCHANGED <<bridgeVars, otherVars, timedOut>>

\* handleSSHRequests: one round of its loop
ServeRequest ==
    /\ ~panicked
    /\ UNCHANGED cascadeVars
    /\ reqLoop
    /\ \/ /\ sshRequests # <<>>
          /\ sshRequests' = Tail(sshRequests)
          /\ pingsServed' = pingsServed + (IF Head(sshRequests).Type = "ping" THEN 1 ELSE 0)
          /\ UNCHANGED reqLoop
       \/ /\ (sshRequests = <<>> /\ connClosed) \/ ctxDone
          /\ reqLoop' = FALSE
          /\ UNCHANGED <<sshRequests, pingsServed>>
    /\ UNCHANGED <<adminVars, sessions, spc, user, r, chdIndex, serr, sshConn,
                   newSSHChannels, nSent, nOpened, connClosed, firstType, elapsed,
                   listeners, reply, chanLoop, chansServed, shutVars, panicked>>
    /\ UNCHANGED <<bridgeVars, otherVars, timedOut>>

\* handleSSHChannels: one round of its loop; an inbound sub-stream is handed
\* to handleSSHNewChannel
ServeChannel ==
    /\ ~panicked
    /\ UNCHANGED cascadeVars
    /\ chanLoop
    /\ \/ /\ newSSHChannels > 0
          /\ newSSHChannels' = newSSHChannels - 1
          /\ chansServed' = chansServed + 1
          /\ UNCHANGED chanLoop
       \/ /\ (newSSHChannels = 0 /\ connClosed) \/ ctxDone
          /\ chanLoop' = FALSE
          /\ UNCHANGED <<newSSHChannels, chansServed>>
    /\ UNCHANGED <<adminVars, sessions, spc, user, r, chdIndex, serr, sshConn,
                   sshRequests, nSent, nOpened, connClosed, firstType, elapsed,
                   listeners, reply, reqLoop, pingsServed, shutVars, panicked>>
    /\ UNCHANGED <<bridgeVars, otherVars, timedOut>>

\* the goroutine of startWithSSHConn that waits for the connection to end
ConnWait ==
    /\ ~panicked
    /\ UNCHANGED cascadeVars
    /\ spc = "running"
    /\ connClosed
    /\ ~isScheduledShutdown
    /\ SessionStartShutdown("ConnClosed")
    /\ UNCHANGED <<adminVars, sessions, spc, user, r, chdIndex, serr, sshConn, clientVars,
                   elapsed, listeners, reply, serveVars, shutdownPauseCount,
                   isDoneShutdown, panicked>>
    /\ UNCHANGED <<bridgeVars, otherVars, timedOut>>

\* the goroutine of ShutdownOnContext
ContextWatch ==
    /\ ~panicked
    /\ UNCHANGED cascadeVars
    /\ ctxDone
    /\ ~isScheduledShutdown
    /\ SessionStartShutdown("Canceled")
    /\ UNCHANGED <<adminVars, sessions, spc, user, r, chdIndex, serr, sshConn, clientVars,
                   elapsed, listeners, reply, serveVars, shutdownPauseCount,
                   isDoneShutdown, panicked>>
    /\ UNCHANGED <<bridgeVars, otherVars, timedOut>>

\* asyncDoStartedShutdown up to the closing of shutdownHandlerDoneChan, with
\* SSHSession.HandleOnceShutdown: the SSH connection is closed
SessionHandleOnceShutdown ==
    /\ ~panicked
    /\ isStartedShutdown
    /\ ~shutdownHandlerDone
    /\ connClosed' = (connClosed \/ sshConn)
    /\ shutdownHandlerDone' = TRUE
    /\ UNCHANGED <<adminVars, sessions, spc, user, r, chdIndex, serr, sshConn,
                   sshRequests, newSSHChannels, nSent, nOpened, firstType, elapsed,
                   listeners, accepting, reply, serveVars, shutVars, panicked>>
    /\ UNCHANGED <<bridgeVars, otherVars, timedOut>>

\* the stub listener of descriptor i stops accepting: the TCPProxy is shut
\* down as a child of the session once the handler of the session is done, or
\* by the context it watches, and its endpoint closes the listener with it;
\* acceptLoop closes the endpoint when the context is done
ProxyShutdown(i) ==
    /\ ~panicked
    /\ i \in accepting
    /\ shutdownHandlerDone \/ ctxDone
    /\ accepting' = accepting \ {i}
    /\ UNCHANGED <<adminVars, sessions, spc, user, r, chdIndex, serr, sshConn, clientVars,
                   elapsed, listeners, reply, serveVars, shutVars, shutdownHandlerDone,
                   panicked>>
    /\ UNCHANGED <<bridgeVars, otherVars, timedOut>>

\* asyncDoStartedShutdown after h.wg.Wait(): every child of the session is
\* shut down
SessionShutdownDone ==
    /\ ~panicked
    /\ shutdownHandlerDone
    /\ ~isDoneShutdown
    /\ accepting = {}
    /\ isDoneShutdown' = TRUE
    /\ UNCHANGED <<adminVars, sessions, spc, user, r, chdIndex, serr, sshConn, clientVars,
                   elapsed, listeners, reply, serveVars, cascadeVars, shutdownPauseCount,
                   isScheduledShutdown, isStartedShutdown, shutdownErr, panicked>>
    /\ UNCHANGED <<bridgeVars, otherVars, timedOut>>

\* the context of the server is cancelled
CancelContext ==
    /\ ~panicked
    /\ UNCHANGED cascadeVars
    /\ ~ctxDone
    /\ ctxDone' = TRUE
    /\ UNCHANGED <<users, reverseOk, sessions, spc, user, r, chdIndex, serr, sshConn,
                   clientVars, elapsed, listeners, reply, serveVars, shutVars, panicked>>
    /\ UNCHANGED <<bridgeVars, otherVars, timedOut>>

\* Server.DeleteUser (a session reads the index in its handshake and when it
\* starts, so that is when a change of the index matters to it)
DeleteUser ==
    /\ ~panicked
    /\ UNCHANGED cascadeVars
    /\ spc \in {"run", "handshake", "start"}
    /\ users # NoUser
    /\ users' = NoUser
    /\ UNCHANGED <<reverseOk, ctxDone, sessions, spc, user, r, chdIndex, serr, sshConn,
                   clientVars, elapsed, listeners, reply, serveVars, shutVars, panicked>>
    /\ UNCHANGED <<bridgeVars, otherVars, timedOut>>

\* Server.AddUser
AddUser ==
    /\ ~panicked
    /\ UNCHANGED cascadeVars
    /\ spc \in {"run", "handshake", "start"}
    /\ users = NoUser
    /\ users' = UserOf(<<AllowAll>>)
    /\ UNCHANGED <<reverseOk, ctxDone, sessions, spc, user, r, chdIndex, serr, sshConn,
                   clientVars, elapsed, listeners, reply, serveVars, shutVars, panicked>>
    /\ UNCHANGED <<bridgeVars, otherVars, timedOut>>

\* the client sends an SSH request (what a client does once Run has returned
\* and handleWebsocket closes the connection reaches nobody)
ClientSend ==
    /\ ~panicked
    /\ UNCHANGED cascadeVars
    /\ spc \notin {"run", "handshake", "closed"}
    /\ ~connClosed
    /\ nSent < MaxRequests
    /\ \E req \in (IF nSent = 0 THEN FirstRequests ELSE LaterRequests) :
         sshRequests' = Append(sshRequests, req)
    /\ nSent' = nSent + 1
    /\ UNCHANGED <<adminVars, sessions, spc, user, r, chdIndex, serr, sshConn,
                   newSSHChannels, nOpened, connClosed, firstType, elapsed, listeners,
                   reply, serveVars, shutVars, panicked>>
    /\ UNCHANGED <<bridgeVars, otherVars, timedOut>>

\* the client asks for a new sub-stream
ClientOpen ==
    /\ ~panicked
    /\ UNCHANGED cascadeVars
    /\ spc \notin {"run", "handshake", "closed"}
    /\ ~connClosed
    /\ nOpened < MaxOpens
    /\ newSSHChannels' = newSSHChannels + 1
    /\ nOpened' = nOpened + 1
    /\ UNCHANGED <<adminVars, sessions, spc, user, r, chdIndex, serr, sshConn,
                   sshRequests, nSent, connClosed, firstType, elapsed, listeners, reply,
                   serveVars, shutVars, panicked>>
    /\ UNCHANGED <<bridgeVars, otherVars, timedOut>>

\* the client goes away
ClientClose ==
    /\ ~panicked
    /\ UNCHANGED cascadeVars
    /\ spc # "closed"
    /\ ~connClosed
    /\ connClosed' = TRUE
    /\ UNCHANGED <<adminVars, sessions, spc, user, r, chdIndex, serr, sshConn,
                   sshRequests, newSSHChannels, nSent, nOpened, firstType, elapsed,
                   listeners, reply, serveVars, shutVars, panicked>>
    /\ UNCHANGED <<bridgeVars, otherVars, timedOut>>

\* a session NewServerSSHSession has just made, on a server with or without
\* users, with reverse mode enabled or not
SessionInit ==
    /\ users \in {NoUser} \cup {UserOf(a) : a \in AddrLists}
    /\ reverseOk \in BOOLEAN
    /\ sessions = NoUser
    /\ spc = "run"
    /\ user = NoUser
    /\ r = NoRequest
    /\ chdIndex = 0
    /\ serr = "nil"
    /\ sshConn = FALSE
    /\ sshRequests = <<>>
    /\ newSSHChannels = 0
    /\ nSent = 0
    /\ nOpened = 0
    /\ connClosed = FALSE
    /\ ctxDone = FALSE
    /\ elapsed = 0
    /\ listeners = {}
    /\ reply = NoReply
    /\ reqLoop = FALSE
    /\ chanLoop = FALSE
    /\ pingsServed = 0
    /\ chansServed = 0
    /\ shutdownPauseCount = 0
    /\ isScheduledShutdown = FALSE
    /\ isStartedShutdown = FALSE
    /\ isDoneShutdown = FALSE
    /\ shutdownErr = "nil"
    /\ shutdownHandlerDone = FALSE
    /\ accepting = {}
    /\ firstType = NoRequest.Type
    /\ panicked = FALSE
    /\ timedOut = FALSE

\* a server on which no session has been made yet
SessionAtRest == SessionInit /\ users = NoUser /\ ~reverseOk

SessionNext ==
    \/ RunPause
    \/ RunHandshake
    \/ StartSession
    \/ Tick
    \/ Receive
    \/ Validate
    \/ Listen
    \/ Reply
    \/ Return
    \/ RunFinish
    \/ ServeRequest
    \/ ServeChannel
    \/ ConnWait
    \/ ContextWatch
    \/ SessionHandleOnceShutdown
    \/ \E i \in 1..MaxChannels : ProxyShutdown(i)
    \/ SessionShutdownDone
    \/ CancelContext
    \/ DeleteUser
    \/ AddUser
    \/ ClientSend
    \/ ClientOpen
    \/ ClientClose

(***************************************************************************)
(* Part 3.  The client (share/client.go)                                   *)
(***************************************************************************)
\* the largest Config.MaxRetryCount explored
MaxRetry == 2
\* the connection attempts explored: the attempt of that number succeeds
MaxDials == 4
\* open requests the server sends to the client in one session
MaxStreams == 2

\* the exit status of a process that still runs
NotExited == -1

StubTypes == {"tcp", "stdio"}

\* a "give up?" test that allows one retry more
GiveUpLate(attempt, maxAttempt) == maxAttempt >= 0 /\ attempt > maxAttempt

\* connectionLoop's "give up?" test
GiveUp(attempt, maxAttempt) == maxAttempt >= 0 /\ attempt >= maxAttempt

\* Client.Start makes a TCPProxy for a channel that is not reverse and whose
\* stub is not stdio
NeedsProxy(t) == t # "stdio"

loopVars == <<cpc, connerr, bAttempt, dials, loopEnd>>
readyVars == <<sshConnErr, cSSHConn, sshConnReady>>
cShutVars == <<cScheduled, cStarted, cDone, cShutdownErr>>
runVars == <<runpc, runErr, exitStatus>>
stubVars == <<proxyStarted, getpc, getErr, stubConns>>
streamVars == <<chans, streampc, streamsOpened, streamsTaken>>
clientCfgVars == <<maxRetryCount, stubType>>

\* ShutdownHelper.StartShutdown on the client, whose pause count is zero
\* whenever it is called: the first call records the cause and starts shutdown
CStartShutdown(e) ==
    /\ cScheduled' = TRUE
    /\ cStarted' = TRUE
    /\ cShutdownErr' = IF cScheduled THEN cShutdownErr ELSE e
    /\ UNCHANGED cDone

\* Client.Run up to its wait: DoOnceActivate(Start) starts the proxies of the
\* stubs and the connection loop, ShutdownOnContext watches the context.  When
\* the proxy of the channel fails to start, DoOnceActivate shuts the client
\* down with that error and no connection loop runs.
ClientRun ==
    /\ runpc = "new"
    /\ runpc' = "wait"
    /\ \E ok \in BOOLEAN :
         /\ ~ok => NeedsProxy(stubType)
         /\ IF ok
              THEN /\ cpc' = "top"
                   /\ proxyStarted' = NeedsProxy(stubType)
                   /\ UNCHANGED cShutVars
              ELSE /\ CStartShutdown("ListenFailed")
                   /\ UNCHANGED <<cpc, proxyStarted>>
    /\ UNCHANGED <<clientCfgVars, connerr, bAttempt, dials, loopEnd, readyVars,
                   connDown, lost, cCtxDone, runErr, exitStatus, getpc, getErr,
                   stubConns, streamVars>>
    /\ UNCHANGED <<bridgeVars, sessionVars, onceVars, endpointVars>>

\* the head of connectionLoop: the loop condition, and after a failed dial the
\* backoff and the test that gives up
LoopTop ==
    /\ cpc = "top"
    /\ IF cStarted
         THEN /\ cpc' = "close"
              /\ loopEnd' = "Shutdown"
              /\ UNCHANGED <<connerr, bAttempt>>
         ELSE IF connerr # "nil"
           THEN /\ bAttempt' = bAttempt + 1
                /\ IF GiveUp(bAttempt, maxRetryCount)
                     THEN /\ cpc' = "close"
                          /\ loopEnd' = "RetryLimit"
                          /\ UNCHANGED connerr
                     ELSE /\ connerr' = "nil"
                          /\ cpc' = "dial"
                          /\ UNCHANGED loopEnd
           ELSE /\ cpc' = "dial"
                /\ UNCHANGED <<connerr, bAttempt, loopEnd>>
    /\ UNCHANGED <<clientCfgVars, dials, readyVars, connDown, lost, cShutVars, cCtxDone,
                   runVars, stubVars, streamVars>>
    /\ UNCHANGED <<bridgeVars, sessionVars, onceVars, endpointVars>>

\* d.Dial: a failure is kept in connerr and the loop continues
Dial ==
    /\ cpc = "dial"
    /\ dials' = dials + 1
    /\ \E ok \in BOOLEAN :
         /\ ~ok => dials + 1 < MaxDials
         /\ IF ok
              THEN cpc' = "handshake" /\ UNCHANGED connerr
              ELSE cpc' = "top" /\ connerr' = "DialFailed"
    /\ UNCHANGED <<clientCfgVars, bAttempt, loopEnd, readyVars, connDown, lost, cShutVars,
                   cCtxDone, runVars, stubVars, streamVars>>
    /\ UNCHANGED <<bridgeVars, sessionVars, onceVars, endpointVars>>

\* the errors ssh.NewClientConn ends with
HandshakeErrors == {"AuthFailed", "HandshakeFailed"}

\* ssh.NewClientConn: every failure is stored in sshConnErr and leaves the loop
Handshake ==
    /\ cpc = "handshake"
    /\ \E e \in {"nil"} \cup HandshakeErrors :
         IF e = "nil"
           THEN cpc' = "config" /\ UNCHANGED <<sshConnErr, loopEnd>>
           ELSE cpc' = "close" /\ sshConnErr' = e /\ loopEnd' = e
    /\ UNCHANGED <<clientCfgVars, connerr, bAttempt, dials, cSSHConn, sshConnReady,
                   connDown, lost, cShutVars, cCtxDone, runVars, stubVars,
                   streamVars>>
    /\ UNCHANGED <<bridgeVars, sessionVars, onceVars, endpointVars>>

\* the ways the config request ends other than by the server's acceptance
ConfigErrors == {"ConfigSendFailed", "ConfigRejected"}

\* the config request: a failure is stored in sshConnErr and leaves the loop;
\* after the acceptance the backoff is reset, sshConn is published,
\* sshConnReady is closed and connectStreams starts
Config ==
    /\ cpc = "config"
    /\ \E e \in {"nil"} \cup ConfigErrors :
         IF e = "nil"
           THEN /\ cpc' = "wait"
                /\ bAttempt' = 0
                /\ cSSHConn' = TRUE
                /\ sshConnReady' = TRUE
                /\ streampc' = "recv"
                /\ UNCHANGED <<sshConnErr, loopEnd>>
           ELSE /\ cpc' = "close"
                /\ sshConnErr' = e
                /\ loopEnd' = e
                /\ UNCHANGED <<bAttempt, cSSHConn, sshConnReady, streampc>>
    /\ UNCHANGED <<clientCfgVars, connerr, dials, connDown, lost, cShutVars, cCtxDone,
                   runVars, stubVars, chans, streamsOpened, streamsTaken>>
    /\ UNCHANGED <<bridgeVars, sessionVars, onceVars, endpointVars>>

\* the transport of the established session fails
TransportFail ==
    /\ cpc = "wait"
    /\ ~connDown
    /\ connDown' = TRUE
    /\ lost' = TRUE
    /\ chans' = 0
    /\ UNCHANGED <<clientCfgVars, loopVars, readyVars, cShutVars, cCtxDone, runVars,
                   stubVars, streampc, streamsOpened, streamsTaken>>
    /\ UNCHANGED <<bridgeVars, sessionVars, onceVars, endpointVars>>

\* sshConn.Wait returns: the loop shuts the client down and is left
ConnWaitReturn ==
    /\ cpc = "wait"
    /\ connDown
    /\ CStartShutdown("Disconnected")
    /\ cpc' = "close"
    /\ loopEnd' = "Disconnected"
    /\ UNCHANGED <<clientCfgVars, connerr, bAttempt, dials, readyVars, connDown, lost,
                   cCtxDone, runVars, stubVars, streamVars>>
    /\ UNCHANGED <<bridgeVars, sessionVars, onceVars, endpointVars>>

\* c.Close() after the loop: Shutdown(nil)
LoopClose ==
    /\ cpc = "close"
    /\ CStartShutdown("nil")
    /\ cpc' = "closing"
    /\ UNCHANGED <<clientCfgVars, connerr, bAttempt, dials, loopEnd, readyVars, connDown,
                   lost, cCtxDone, runVars, stubVars, streamVars>>
    /\ UNCHANGED <<bridgeVars, sessionVars, onceVars, endpointVars>>

\* the WaitShutdown of c.Close() returns and connectionLoop ends
LoopExit ==
    /\ cpc = "closing"
    /\ cDone
    /\ cpc' = "exit"
    /\ UNCHANGED <<clientCfgVars, connerr, bAttempt, dials, loopEnd, readyVars, connDown,
                   lost, cShutVars, cCtxDone, runVars, stubVars, streamVars>>
    /\ UNCHANGED <<bridgeVars, sessionVars, onceVars, endpointVars>>

\* the context given to Client.Run is cancelled
ClientCancelContext ==
    /\ ~cCtxDone
    /\ cCtxDone' = TRUE
    /\ UNCHANGED <<clientCfgVars, loopVars, readyVars, connDown, lost, cShutVars, runVars,
                   stubVars, streamVars>>
    /\ UNCHANGED <<bridgeVars, sessionVars, onceVars, endpointVars>>

\* the goroutine of ShutdownOnContext
ClientContextWatch ==
    /\ runpc # "new"
    /\ cCtxDone
    /\ ~cStarted
    /\ CStartShutdown("ContextCanceled")
    /\ UNCHANGED <<clientCfgVars, loopVars, readyVars, connDown, lost, cCtxDone, runVars,
                   stubVars, streamVars>>
    /\ UNCHANGED <<bridgeVars, sessionVars, onceVars, endpointVars>>

\* Client.HandleOnceShutdown, and the end of the shutdown it belongs to: it
\* closes sshConn if that is set, and a nil advisory cause is replaced by the
\* error of that Close
ClientHandleOnceShutdown ==
    /\ cStarted
    /\ ~cDone
    /\ connDown' = (connDown \/ cSSHConn)
    /\ chans' = IF cSSHConn THEN 0 ELSE chans
    /\ \E e \in {"nil", "CloseFailed"} :
         /\ e # "nil" => cSSHConn
         /\ cShutdownErr' = IF cShutdownErr = "nil" THEN e ELSE cShutdownErr
    /\ cDone' = TRUE
    /\ UNCHANGED <<clientCfgVars, loopVars, readyVars, lost, cScheduled, cStarted,
                   cCtxDone, runVars, stubVars, streampc, streamsOpened,
                   streamsTaken>>
    /\ UNCHANGED <<bridgeVars, sessionVars, onceVars, endpointVars>>

\* Client.Run returns what WaitShutdown returns
RunReturn ==
    /\ runpc = "wait"
    /\ cDone
    /\ runpc' = "returned"
    /\ runErr' = cShutdownErr
    /\ UNCHANGED <<clientCfgVars, loopVars, readyVars, connDown, lost, cShutVars,
                   cCtxDone, exitStatus, stubVars, streamVars>>
    /\ UNCHANGED <<bridgeVars, sessionVars, onceVars, endpointVars>>

\* main's client(): an error of Run is logged, client() and then main return
Exit ==
    /\ runpc = "returned"
    /\ exitStatus = NotExited
    /\ exitStatus' = 0
    /\ UNCHANGED <<clientCfgVars, loopVars, readyVars, connDown, lost, cShutVars,
                   cCtxDone, runpc, runErr, stubVars, streamVars>>
    /\ UNCHANGED <<bridgeVars, sessionVars, onceVars, endpointVars>>

\* the TCPProxy of the channel accepts a connection from the stub;
\* runWithLocalCallerConn calls GetSSHConn
GetCall ==
    /\ proxyStarted
    /\ ~cStarted
    /\ getpc = "idle"
    /\ getpc' = "waiting"
    /\ stubConns' = stubConns + 1
    /\ UNCHANGED <<clientCfgVars, loopVars, readyVars, connDown, lost, cShutVars,
                   cCtxDone, runVars, proxyStarted, getErr, streamVars>>
    /\ UNCHANGED <<bridgeVars, sessionVars, onceVars, endpointVars>>

\* GetSSHConn returns once sshConnReady is closed
GetReturn ==
    /\ getpc = "waiting"
    /\ sshConnReady
    /\ getpc' = "returned"
    /\ getErr' = sshConnErr
    /\ UNCHANGED <<clientCfgVars, loopVars, readyVars, connDown, lost, cShutVars,
                   cCtxDone, runVars, proxyStarted, stubConns, streamVars>>
    /\ UNCHANGED <<bridgeVars, sessionVars, onceVars, endpointVars>>

\* the server asks the client for a sub-stream
ServerOpen ==
    /\ cpc = "wait"
    /\ ~connDown
    /\ streamsOpened < MaxStreams
    /\ streamsOpened' = streamsOpened + 1
    /\ chans' = chans + 1
    /\ UNCHANGED <<clientCfgVars, loopVars, readyVars, connDown, lost, cShutVars,
                   cCtxDone, runVars, stubVars, streampc, streamsTaken>>
    /\ UNCHANGED <<bridgeVars, sessionVars, onceVars, endpointVars>>

\* one round of connectStreams' loop up to DialAndServe: the request is
\* rejected, or accepted and served by this same goroutine
StreamTake ==
    /\ streampc = "recv"
    /\ chans > 0
    /\ chans' = chans - 1
    /\ \E accept \in BOOLEAN :
         IF accept
           THEN streampc' = "serve" /\ streamsTaken' = streamsTaken + 1
           ELSE UNCHANGED <<streampc, streamsTaken>>
    /\ UNCHANGED <<clientCfgVars, loopVars, readyVars, connDown, lost, cShutVars,
                   cCtxDone, runVars, stubVars, streamsOpened>>
    /\ UNCHANGED <<bridgeVars, sessionVars, onceVars, endpointVars>>

\* DialAndServe returns: the sub-stream has ended
StreamEnd ==
    /\ streampc = "serve"
    /\ streampc' = "recv"
    /\ UNCHANGED <<clientCfgVars, loopVars, readyVars, connDown, lost, cShutVars,
                   cCtxDone, runVars, stubVars, chans, streamsOpened,
                   streamsTaken>>
    /\ UNCHANGED <<bridgeVars, sessionVars, onceVars, endpointVars>>

\* a client NewClient has just made
ClientInit ==
    /\ maxRetryCount \in -1..MaxRetry
    /\ stubType \in StubTypes
    /\ cpc = "new"
    /\ connerr = "nil"
    /\ bAttempt = 0
    /\ dials = 0
    /\ loopEnd = "running"
    /\ sshConnErr = "nil"
    /\ cSSHConn = FALSE
    /\ sshConnReady = FALSE
    /\ connDown = FALSE
    /\ lost = FALSE
    /\ cScheduled = FALSE
    /\ cStarted = FALSE
    /\ cDone = FALSE
    /\ cShutdownErr = "nil"
    /\ cCtxDone = FALSE
    /\ runpc = "new"
    /\ runErr = "nil"
    /\ exitStatus = NotExited
    /\ proxyStarted = FALSE
    /\ getpc = "idle"
    /\ getErr = "nil"
    /\ stubConns = 0
    /\ chans = 0
    /\ streampc = "off"
    /\ streamsOpened = 0
    /\ streamsTaken = 0

\* a process in which no client runs
ClientAtRest == ClientInit /\ maxRetryCount = -1 /\ stubType = "tcp"

ClientNext ==
    \/ ClientRun
    \/ LoopTop
    \/ Dial
    \/ Handshake
    \/ Config
    \/ TransportFail
    \/ ConnWaitReturn
    \/ LoopClose
    \/ LoopExit
    \/ ClientCancelContext
    \/ ClientContextWatch
    \/ ClientHandleOnceShutdown
    \/ RunReturn
    \/ Exit
    \/ GetCall
    \/ GetReturn
    \/ ServerOpen
    \/ StreamTake
    \/ StreamEnd

(***************************************************************************)
(* Part 4.  ShutdownHelper (share/shutdown_helper.go), called from outside *)
(* in any order.  The object is one on which nothing else runs; its fields *)
(* are the fields of the helper of the session.                            *)
(***************************************************************************)
\* calls of the helper's methods made from outside
MaxCalls == 4

\* the advisory causes the callers give
Causes == {"nil", "Failed"}

\* a StartShutdown that leaves every start to ResumeShutdown
StartsNever(count) == count < 0

\* StartShutdown's doShutdownNow, for a shutdown that was not scheduled yet
StartsNow(count) == count = 0

\* a ResumeShutdown that never starts the shutdown
ResumeIgnores(count, scheduled, started) == count < 0 /\ scheduled /\ ~started

\* a ResumeShutdown that starts a shutdown nobody scheduled
ResumeUnscheduled(count, scheduled, started) == count = 0 /\ ~started

\* ResumeShutdown's doShutdownNow, after the decrement
ResumeStarts(count, scheduled, started) == count = 0 /\ scheduled /\ ~started

\* the state of the object that the helper does not touch
objectVars == <<users, sessions, reverseOk, spc, user, r, chdIndex, serr, sshConn,
                sshRequests, newSSHChannels, nSent, nOpened, connClosed, elapsed,
                listeners, reply, reqLoop, chanLoop, pingsServed, chansServed,
                accepting, firstType, timedOut>>

\* the body of StartShutdown: only the first call has an effect; it starts the
\* shutdown at once when the pause count is zero
HStart(e) ==
    /\ firstCause' = IF firstCause = "nil" /\ handlerCalls = 0 THEN e ELSE firstCause
    /\ IF ~isScheduledShutdown
         THEN /\ panicked' = isStartedShutdown
              /\ shutdownErr' = e
              /\ isScheduledShutdown' = TRUE
              /\ isStartedShutdown' = StartsNow(shutdownPauseCount)
              /\ pendingStarts' =
                    pendingStarts + (IF StartsNow(shutdownPauseCount) THEN 1 ELSE 0)
              /\ startedBy' =
                    IF StartsNow(shutdownPauseCount) THEN "StartShutdown" ELSE startedBy
         ELSE UNCHANGED <<panicked, shutdownErr, isScheduledShutdown,
                          isStartedShutdown, pendingStarts, startedBy>>

\* the body of ResumeShutdown
HResume ==
    /\ shutdownPauseCount' = shutdownPauseCount - 1
    /\ IF ResumeStarts(shutdownPauseCount - 1, isScheduledShutdown, isStartedShutdown)
         THEN /\ isStartedShutdown' = TRUE
              /\ pendingStarts' = pendingStarts + 1
              /\ startedBy' = "ResumeShutdown"
         ELSE UNCHANGED <<isStartedShutdown, pendingStarts, startedBy>>

HStartShutdown ==
    /\ ~panicked
    /\ apiCalls < MaxCalls
    /\ apiCalls' = apiCalls + 1
    /\ \E e \in Causes : HStart(e)
    /\ UNCHANGED <<ctxDone, shutdownPauseCount, isDoneShutdown, shutdownHandlerDone,
                   isActivated, handlerCalls, paused, activating, resuming,
                   childpc, childSt, activateCalls, shutdownStartedChan>>
    /\ UNCHANGED <<bridgeVars, connVars, objectVars, endpointVars>>

\* Shutdown: StartShutdown, then the caller waits in WaitShutdown
HShutdown ==
    /\ ~panicked
    /\ apiCalls < MaxCalls
    /\ apiCalls' = apiCalls + 1
    /\ \E e \in Causes : HStart(e)
    /\ UNCHANGED <<ctxDone, shutdownPauseCount, isDoneShutdown, shutdownHandlerDone,
                   isActivated, handlerCalls, paused, activating, resuming,
                   childpc, childSt, activateCalls, shutdownStartedChan>>
    /\ UNCHANGED <<bridgeVars, connVars, objectVars, endpointVars>>

\* Close: Shutdown(nil)
HClose ==
    /\ ~panicked
    /\ apiCalls < MaxCalls
    /\ apiCalls' = apiCalls + 1
    /\ HStart("nil")
    /\ UNCHANGED <<ctxDone, shutdownPauseCount, isDoneShutdown, shutdownHandlerDone,
                   isActivated, handlerCalls, paused, activating, resuming,
                   childpc, childSt, activateCalls, shutdownStartedChan>>
    /\ UNCHANGED <<bridgeVars, connVars, objectVars, endpointVars>>

\* the context given to ShutdownOnContext is cancelled
HCancelContext ==
    /\ ~panicked
    /\ ~ctxDone
    /\ ctxDone' = TRUE
    /\ UNCHANGED <<shutVars, shutdownHandlerDone, panicked, isActivated,
                   handlerCalls, pendingStarts, paused, activating, resuming,
                   apiCalls,
                   childpc, childSt, activateCalls, shutdownStartedChan, startedBy, firstCause>>
    /\ UNCHANGED <<bridgeVars, connVars, objectVars, endpointVars>>

\* the goroutine of ShutdownOnContext, which ends without effect once the
\* shutdown has started
HContextWatch ==
    /\ ~panicked
    /\ ctxDone
    /\ ~isScheduledShutdown
    /\ HStart("ContextCanceled")
    /\ UNCHANGED <<ctxDone, shutdownPauseCount, isDoneShutdown, shutdownHandlerDone,
                   isActivated, handlerCalls, paused, activating, resuming, apiCalls,
                   childpc, childSt, activateCalls, shutdownStartedChan>>
    /\ UNCHANGED <<bridgeVars, connVars, objectVars, endpointVars>>

\* PauseShutdown: fails once the shutdown has started
HPauseShutdown ==
    /\ ~panicked
    /\ apiCalls < MaxCalls
    /\ apiCalls' = apiCalls + 1
    /\ IF isStartedShutdown
         THEN UNCHANGED <<shutdownPauseCount, paused>>
         ELSE /\ shutdownPauseCount' = shutdownPauseCount + 1
              /\ paused' = paused + 1
    /\ UNCHANGED <<ctxDone, isScheduledShutdown, isStartedShutdown, isDoneShutdown,
                   shutdownErr, shutdownHandlerDone, panicked, isActivated,
                   handlerCalls, pendingStarts, activating, resuming,
                   childpc, childSt, activateCalls, shutdownStartedChan, startedBy, firstCause>>
    /\ UNCHANGED <<bridgeVars, connVars, objectVars, endpointVars>>

\* ResumeShutdown, by a caller whose PauseShutdown succeeded
HResumeShutdown ==
    /\ ~panicked
    /\ paused > 0
    /\ paused' = paused - 1
    /\ HResume
    /\ UNCHANGED <<ctxDone, isScheduledShutdown, isDoneShutdown, shutdownErr,
                   shutdownHandlerDone, panicked, isActivated, handlerCalls,
                   activating, resuming, apiCalls,
                   childpc, childSt, activateCalls, shutdownStartedChan, firstCause>>
    /\ UNCHANGED <<bridgeVars, connVars, objectVars, endpointVars>>

\* DoOnceActivate up to the call of its handler: it returns at once when the
\* object is activated or its shutdown has started, and pauses otherwise
HActivateBegin ==
    /\ ~panicked
    /\ apiCalls < MaxCalls
    /\ apiCalls' = apiCalls + 1
    /\ IF isActivated \/ isStartedShutdown
         THEN UNCHANGED <<shutdownPauseCount, activating, activateCalls>>
         ELSE /\ shutdownPauseCount' = shutdownPauseCount + 1
              /\ activating' = activating + 1
              /\ activateCalls' = activateCalls + 1
    /\ UNCHANGED <<ctxDone, isScheduledShutdown, isStartedShutdown, isDoneShutdown,
                   shutdownErr, shutdownHandlerDone, panicked, isActivated,
                   handlerCalls, pendingStarts, paused, resuming,
                   childpc, childSt, shutdownStartedChan, startedBy, firstCause>>
    /\ UNCHANGED <<bridgeVars, connVars, objectVars, endpointVars>>

\* DoOnceActivate: its handler returns; Activate after a success, and
\* StartShutdown with the error of either
HActivateHandler ==
    /\ ~panicked
    /\ activating > 0
    /\ activating' = activating - 1
    /\ resuming' = resuming + 1
    /\ \E ok \in BOOLEAN :
         IF ok /\ (isActivated \/ ~isStartedShutdown)
           THEN /\ isActivated' = TRUE
                /\ UNCHANGED <<panicked, shutdownErr, isScheduledShutdown,
                               isStartedShutdown, pendingStarts, startedBy,
                               firstCause>>
           ELSE /\ HStart("Failed")
                /\ UNCHANGED isActivated
    /\ UNCHANGED <<ctxDone, shutdownPauseCount, isDoneShutdown, shutdownHandlerDone,
                   handlerCalls, paused, apiCalls,
                   childpc, childSt, activateCalls, shutdownStartedChan>>
    /\ UNCHANGED <<bridgeVars, connVars, objectVars, endpointVars>>

\* DoOnceActivate: its ResumeShutdown
HActivateResume ==
    /\ ~panicked
    /\ resuming > 0
    /\ resuming' = resuming - 1
    /\ HResume
    /\ UNCHANGED <<ctxDone, isScheduledShutdown, isDoneShutdown, shutdownErr,
                   shutdownHandlerDone, panicked, isActivated, handlerCalls, paused,
                   activating, apiCalls,
                   childpc, childSt, activateCalls, shutdownStartedChan, firstCause>>
    /\ UNCHANGED <<bridgeVars, connVars, objectVars, endpointVars>>

\* a goroutine of asyncDoStartedShutdown that runs before the close
GoroutineStartedAlways(ch) == ch \in {"open", "closed"}

\* asyncDoStartedShutdown starts its goroutine after close(shutdownStartedChan)
GoroutineStarted(ch) == ch = "closed"

\* asyncDoStartedShutdown, called by whoever set isStartedShutdown: it closes
\* shutdownStartedChan before it starts its goroutine
HCloseShutdownStartedChan ==
    /\ ~panicked
    /\ pendingStarts > 0
    /\ shutdownStartedChan = "open"
    /\ shutdownStartedChan' = "closed"
    /\ UNCHANGED <<ctxDone, shutVars, shutdownHandlerDone, panicked, isActivated,
                   handlerCalls, pendingStarts, paused, activating, resuming,
                   apiCalls, childpc, childSt, startedBy, firstCause, activateCalls>>
    /\ UNCHANGED <<bridgeVars, connVars, objectVars, endpointVars>>

\* the goroutine of asyncDoStartedShutdown: it invokes HandleOnceShutdown and
\* closes shutdownHandlerDoneChan
HAsyncDoStartedShutdown ==
    /\ ~panicked
    /\ pendingStarts > 0
    /\ GoroutineStarted(shutdownStartedChan)
    /\ pendingStarts' = pendingStarts - 1
    /\ handlerCalls' = handlerCalls + 1
    /\ shutdownHandlerDone' = TRUE
    /\ UNCHANGED <<ctxDone, shutVars, panicked, isActivated, paused, activating,
                   resuming, apiCalls,
                   childpc, childSt, activateCalls, shutdownStartedChan, startedBy, firstCause>>
    /\ UNCHANGED <<bridgeVars, connVars, objectVars, endpointVars>>

\* the goroutine of asyncDoStartedShutdown after the handler: wg.Wait returns
\* when no goroutine of AddShutdownChild is counted, the shutdown is complete
HShutdownDone ==
    /\ ~panicked
    /\ shutdownHandlerDone
    /\ ~isDoneShutdown
    /\ childpc \in {"none", "done"}
    /\ isDoneShutdown' = TRUE
    /\ UNCHANGED <<ctxDone, shutdownPauseCount, isScheduledShutdown,
                   isStartedShutdown, shutdownErr, shutdownHandlerDone, panicked,
                   isActivated, handlerCalls, pendingStarts, paused, activating,
                   resuming, apiCalls,
                   childpc, childSt, activateCalls, shutdownStartedChan, startedBy, firstCause>>
    /\ UNCHANGED <<bridgeVars, connVars, objectVars, endpointVars>>

\* the state of the helper that a child does not touch
parentVars == <<ctxDone, shutVars, shutdownHandlerDone, panicked, isActivated,
                handlerCalls, pendingStarts, paused, activating, resuming,
                startedBy, firstCause, activateCalls, shutdownStartedChan>>

\* AddShutdownChild: wg.Add(1) and a goroutine, whatever the state of the helper
HAddShutdownChild ==
    /\ ~panicked
    /\ apiCalls < MaxCalls
    /\ apiCalls' = apiCalls + 1
    /\ childpc = "none"
    /\ childpc' = "watch"
    /\ UNCHANGED <<parentVars, childSt>>
    /\ UNCHANGED <<bridgeVars, connVars, objectVars, endpointVars>>

\* the goroutine of AddShutdownChild: its select takes the child's
\* ShutdownDoneChan, or the helper's shutdownHandlerDoneChan and then starts
\* the shutdown of the child
HChildWatch ==
    /\ ~panicked
    /\ childpc = "watch"
    /\ \/ /\ childSt = "done"
          /\ childpc' = "done"
          /\ UNCHANGED childSt
       \/ /\ shutdownHandlerDone
          /\ childpc' = "wait"
          /\ childSt' = IF childSt = "active" THEN "shutting" ELSE childSt
    /\ UNCHANGED <<parentVars, apiCalls>>
    /\ UNCHANGED <<bridgeVars, connVars, objectVars, endpointVars>>

\* the goroutine of AddShutdownChild: child.WaitShutdown returns, wg.Done
HChildWaitShutdown ==
    /\ ~panicked
    /\ childpc = "wait"
    /\ childSt = "done"
    /\ childpc' = "done"
    /\ UNCHANGED <<parentVars, apiCalls, childSt>>
    /\ UNCHANGED <<bridgeVars, connVars, objectVars, endpointVars>>

\* the child starts its shutdown on its own
HChildStartShutdown ==
    /\ ~panicked
    /\ childSt = "active"
    /\ childSt' = "shutting"
    /\ UNCHANGED <<parentVars, apiCalls, childpc>>
    /\ UNCHANGED <<bridgeVars, connVars, objectVars, endpointVars>>

\* the shutdown of the child completes
HChildShutdownDone ==
    /\ ~panicked
    /\ childSt = "shutting"
    /\ childSt' = "done"
    /\ UNCHANGED <<parentVars, apiCalls, childpc>>
    /\ UNCHANGED <<bridgeVars, connVars, objectVars, endpointVars>>

\* no method of the helper has been called
OnceAtRest ==
    /\ isActivated = FALSE
    /\ handlerCalls = 0
    /\ pendingStarts = 0
    /\ paused = 0
    /\ activating = 0
    /\ resuming = 0
    /\ apiCalls = 0
    /\ startedBy = "none"
    /\ firstCause = "nil"
    /\ childpc = "none"
    /\ childSt = "active"
    /\ activateCalls = 0
    /\ shutdownStartedChan = "open"

HelperNext ==
    \/ HStartShutdown
    \/ HShutdown
    \/ HClose
    \/ HCancelContext
    \/ HContextWatch
    \/ HPauseShutdown
    \/ HResumeShutdown
    \/ HActivateBegin
    \/ HActivateHandler
    \/ HActivateResume
    \/ HCloseShutdownStartedChan
    \/ HAsyncDoStartedShutdown
    \/ HShutdownDone
    \/ HAddShutdownChild
    \/ HChildWatch
    \/ HChildWaitShutdown
    \/ HChildStartShutdown
    \/ HChildShutdownDone

(***************************************************************************)
(* Part 5.  netBipipeListener (pkg/wstnet, part_004): the low-level        *)
(* acceptor goroutine, the calls of AcceptWithContext and the shutdown of  *)
(* the listener.  The lifecycle of its asyncobj.Helper is that of the      *)
(* ShutdownHelper of Part 4: DoOnceActivate refuses once the shutdown has  *)
(* started, the first StartShutdown gives the cause, HandleOnceShutdown    *)
(* runs once in its own goroutine.                                         *)
(***************************************************************************)
\* connections that clients make to the listener
MaxConns == 2
\* calls of AcceptWithContext, each by its own goroutine
MaxAccepts == 2

Callers == 1..MaxAccepts

\* errIsPersistent of AcceptWithContext, by what the call returned
ErrIsPersistent(res) == res \in {"ErrBipipeListenerClosed", "Failed"}

\* what WaitLocalShutdown gives AcceptWithContext to return
ClosedResult(cause) == IF cause = "nil" THEN "ErrBipipeListenerClosed" ELSE "Failed"

\* the connections the DRAIN loop of HandleOnceShutdown finds on newConns: the
\* one a sender offers, when there is a sender
Drained(a) == IF a = "send" THEN 1 ELSE 0

\* everything but the listener
notListenerVars == <<bridgeVars, sessionVars, connVars, onceVars, loopRegVars,
                     inboundVars, lockVars, halfVars>>

\* StartShutdown of the listener: the first call gives the cause
ListenerStart(e) ==
    IF lpc = "open"
      THEN lpc' = "started" /\ lcause' = e
      ELSE UNCHANGED <<lpc, lcause>>

\* StartListening, that is DoOnceActivate with HandleOnceActivate as its
\* handler: ok is whether slcb gave a net.Listener, res the error returned
DoStartListening(ok, res) ==
    IF apc # "off"
      THEN res = "nil" /\ UNCHANGED <<apc, lpc, lcause>>
      ELSE IF lpc # "open"
        THEN res = "Failed" /\ UNCHANGED <<apc, lpc, lcause>>
        ELSE IF ok
          THEN res = "nil" /\ apc' = "accept" /\ UNCHANGED <<lpc, lcause>>
          ELSE res = "Failed" /\ ListenerStart("Failed") /\ UNCHANGED apc

\* StartListening called on its own
ListenerStartListening ==
    /\ apc = "off"
    /\ \E ok \in BOOLEAN, res \in {"nil", "Failed"} : DoStartListening(ok, res)
    /\ UNCHANGED <<acc, nAccepted, nClosed, heldAtCancel, notListenerVars>>

\* StartShutdown, Shutdown or Close called on the listener from outside
ListenerStartShutdown ==
    /\ lpc = "open"
    /\ \E e \in {"nil", "Failed"} : ListenerStart(e)
    /\ UNCHANGED <<apc, acc, nAccepted, nClosed, heldAtCancel, notListenerVars>>

\* the acceptor goroutine: nl.Accept returns a connection, which the
\* goroutine then offers on newConns
AcceptorAccept ==
    /\ apc = "accept"
    /\ lpc \in {"open", "started"}
    /\ nAccepted < MaxConns
    /\ nAccepted' = nAccepted + 1
    /\ apc' = "send"
    /\ UNCHANGED <<lpc, lcause, acc, nClosed, heldAtCancel, notListenerVars>>

\* the acceptor goroutine: nl.Accept returns an error, at the latest once
\* HandleOnceShutdown has closed the net.Listener; StartShutdown(err), and
\* the goroutine closes acceptorDone
AcceptorFail ==
    /\ apc = "accept"
    /\ ListenerStart("Failed")
    /\ apc' = "exited"
    /\ UNCHANGED <<acc, nAccepted, nClosed, heldAtCancel, notListenerVars>>

\* AcceptWithContext up to its select: StartListening, whose error is
\* returned as persistent
AcceptWithContext(i) ==
    /\ acc[i] = "idle"
    /\ \E ok \in BOOLEAN, res \in {"nil", "Failed"} :
         /\ DoStartListening(ok, res)
         /\ acc' = [acc EXCEPT ![i] = IF res = "nil" THEN "waiting" ELSE res]
    /\ UNCHANGED <<nAccepted, nClosed, heldAtCancel, notListenerVars>>

\* AcceptWithContext: the select receives the connection the acceptor offers
AcceptReceive(i) ==
    /\ acc[i] = "waiting"
    /\ apc = "send"
    /\ apc' = "accept"
    /\ acc' = [acc EXCEPT ![i] = "Bipipe"]
    /\ UNCHANGED <<lpc, lcause, nAccepted, nClosed, heldAtCancel, notListenerVars>>

\* AcceptWithContext: the select receives nil from the closed newConns and
\* WaitLocalShutdown gives the final status of the listener
AcceptClosed(i) ==
    /\ acc[i] = "waiting"
    /\ lpc = "done"
    /\ acc' = [acc EXCEPT ![i] = ClosedResult(lcause)]
    /\ UNCHANGED <<lpc, lcause, apc, nAccepted, nClosed, heldAtCancel, notListenerVars>>

\* a cancelled call that takes the acceptor's connection with it
AcceptCancelDrops(i) ==
    /\ acc[i] = "waiting"
    /\ acc' = [acc EXCEPT ![i] = "Canceled"]
    /\ heldAtCancel' = (heldAtCancel \/ apc = "send")
    /\ apc' = IF apc = "send" THEN "accept" ELSE apc
    /\ UNCHANGED <<lpc, lcause, nAccepted, nClosed, notListenerVars>>

\* AcceptWithContext: the context of the call is cancelled and the select
\* takes ctx.Done
AcceptCancel(i) ==
    /\ acc[i] = "waiting"
    /\ acc' = [acc EXCEPT ![i] = "Canceled"]
    /\ heldAtCancel' = (heldAtCancel \/ apc = "send")
    /\ UNCHANGED <<lpc, lcause, apc, nAccepted, nClosed, notListenerVars>>

\* HandleOnceShutdown up to its wait: without a net.Listener it closes newConns
\* at once; otherwise it closes the net.Listener and waits for acceptorDone
ListenerHandleOnceShutdown ==
    /\ lpc = "started"
    /\ lpc' = IF apc = "off" THEN "done" ELSE "waitAcceptor"
    /\ UNCHANGED <<lcause, apc, acc, nAccepted, nClosed, heldAtCancel, notListenerVars>>

\* HandleOnceShutdown after acceptorDone: the DRAIN loop closes what it finds
\* on newConns, then newConns is closed and the handler returns
ListenerDrain ==
    /\ lpc = "waitAcceptor"
    /\ apc = "exited"
    /\ nClosed' = nClosed + Drained(apc)
    /\ lpc' = "done"
    /\ UNCHANGED <<lcause, apc, acc, nAccepted, heldAtCancel, notListenerVars>>

\* NewNetBipipeListenerWithStartCallback
ListenerAtRest ==
    /\ lpc = "open"
    /\ lcause = "nil"
    /\ apc = "off"
    /\ acc = [i \in Callers |-> "idle"]
    /\ nAccepted = 0
    /\ nClosed = 0
    /\ heldAtCancel = FALSE

ListenerNext ==
    \/ ListenerStartListening
    \/ ListenerStartShutdown
    \/ AcceptorAccept
    \/ AcceptorFail
    \/ \E i \in Callers :
         \/ AcceptWithContext(i)
         \/ AcceptReceive(i)
         \/ AcceptClosed(i)
         \/ AcceptCancel(i)
    \/ ListenerHandleOnceShutdown
    \/ ListenerDrain

(***************************************************************************)
(* Part 6.  The loop registry (pkg/wstchannel/loop_server.go) and the loop *)
(* stub endpoints (share/loop_stub_endpoint.go) that register with it,     *)
(* with one dialer.  StartListening, EnqueueCallerConn, StartShutdown and  *)
(* the first part of HandleOnceShutdown hold the Lock of the endpoint, so  *)
(* each is one step.                                                       *)
(***************************************************************************)
\* calls of StartListening made on one stub
MaxStarts == 2
\* calls of Dial, DialAndServe or EnqueueCallerConn made on the LoopServer
MaxLoopDials == 7

\* the capacity of callerConns
Backlog == 5

Stubs == 1..2
NoStub == 0
Names == {"a", "b"}

\* GetLoopPath: the two stubs are made for the same loop name
StubPath(s) == "a"

\* a RegisterAcceptor that takes every name for free
NameFreeAlways(e, name) == name \in Names

\* RegisterAcceptor's test of the entry
NameFree(e, name) == e[name] = NoStub

\* a send on callerConns that never finds the channel full
HasRoomAlways(n) == n >= 0

\* the select of EnqueueCallerConn: the send is taken when the channel has room
HasRoom(n) == n < Backlog

\* everything but the loop registry and its stubs
notLoopVars == <<bridgeVars, sessionVars, connVars, onceVars, listenerVars,
                 inboundVars, lockVars, halfVars>>

\* LoopStubEndpoint.StartListening
LoopStartListening(s) ==
    /\ starts[s] < MaxStarts
    /\ starts' = [starts EXCEPT ![s] = starts[s] + 1]
    /\ IF ~listening[s] /\ epst[s] = "active" /\ NameFree(entries, StubPath(s))
         THEN /\ entries' = [entries EXCEPT ![StubPath(s)] = s]
              /\ listening' = [listening EXCEPT ![s] = TRUE]
         ELSE UNCHANGED <<entries, listening>>
    /\ UNCHANGED <<epst, callerConns, dtarget, dres, nDials, notLoopVars>>

\* StartShutdown of a stub
LoopStartShutdown(s) ==
    /\ epst[s] = "active"
    /\ epst' = [epst EXCEPT ![s] = "started"]
    /\ UNCHANGED <<entries, listening, starts, callerConns, dtarget, dres, nDials,
                   notLoopVars>>

\* a HandleOnceShutdown that leaves the stub registered
LoopHandleOnceShutdownKeeps(s) ==
    /\ epst[s] = "started"
    /\ epst' = [epst EXCEPT ![s] = "draining"]
    /\ UNCHANGED <<entries, listening, starts, callerConns, dtarget, dres, nDials,
                   notLoopVars>>

\* LoopStubEndpoint.HandleOnceShutdown, its first part: UnregisterAcceptor,
\* which removes the entry only if it names this stub
LoopHandleOnceShutdown(s) ==
    /\ epst[s] = "started"
    /\ epst' = [epst EXCEPT ![s] = "draining"]
    /\ IF listening[s]
         THEN /\ entries' = IF entries[StubPath(s)] = s
                              THEN [entries EXCEPT ![StubPath(s)] = NoStub]
                              ELSE entries
              /\ listening' = [listening EXCEPT ![s] = FALSE]
         ELSE UNCHANGED <<entries, listening>>
    /\ UNCHANGED <<starts, callerConns, dtarget, dres, nDials, notLoopVars>>

\* HandleOnceShutdown, its loop over callerConns: it closes each connection
\* it receives.  The loop ends when the channel is closed, which only the
\* statement after the loop does, so the handler stays in the loop.
LoopDrain(s) ==
    /\ epst[s] = "draining"
    /\ callerConns[s] > 0
    /\ callerConns' = [callerConns EXCEPT ![s] = callerConns[s] - 1]
    /\ UNCHANGED <<entries, listening, epst, starts, dtarget, dres, nDials,
                   notLoopVars>>

\* LoopStubEndpoint.Accept receives a connection from callerConns
LoopAccept(s) ==
    /\ callerConns[s] > 0
    /\ callerConns' = [callerConns EXCEPT ![s] = callerConns[s] - 1]
    /\ UNCHANGED <<entries, listening, epst, starts, dtarget, dres, nDials,
                   notLoopVars>>

\* LoopServer.Dial, DialAndServe and EnqueueCallerConn up to the call on the
\* acceptor: GetAcceptor
LoopDial(name) ==
    /\ dtarget = NoStub
    /\ nDials < MaxLoopDials
    /\ nDials' = nDials + 1
    /\ dtarget' = entries[name]
    /\ dres' = IF entries[name] = NoStub THEN "NotListening" ELSE "calling"
    /\ UNCHANGED <<entries, listening, epst, starts, callerConns, notLoopVars>>

\* LoopStubEndpoint.EnqueueCallerConn, called by HandleDial and
\* HandleDialAndServe on the acceptor that GetAcceptor gave
EnqueueCallerConn ==
    /\ dtarget # NoStub
    /\ dtarget' = NoStub
    /\ IF ~listening[dtarget]
         THEN dres' = "NoListener" /\ UNCHANGED callerConns
         ELSE IF HasRoom(callerConns[dtarget])
           THEN /\ dres' = "nil"
                /\ callerConns' = [callerConns EXCEPT ![dtarget] = callerConns[dtarget] + 1]
           ELSE dres' = "BacklogFull" /\ UNCHANGED callerConns
    /\ UNCHANGED <<entries, listening, epst, starts, nDials, notLoopVars>>

\* NewLoopServer, NewLoopStubEndpoint
LoopAtRest ==
    /\ entries = [n \in Names |-> NoStub]
    /\ listening = [s \in Stubs |-> FALSE]
    /\ epst = [s \in Stubs |-> "active"]
    /\ starts = [s \in Stubs |-> 0]
    /\ callerConns = [s \in Stubs |-> 0]
    /\ dtarget = NoStub
    /\ dres = "none"
    /\ nDials = 0

LoopNext ==
    \/ \E s \in Stubs :
         \/ LoopStartListening(s)
         \/ LoopStartShutdown(s)
         \/ LoopHandleOnceShutdown(s)
         \/ LoopDrain(s)
         \/ LoopAccept(s)
    \/ \E name \in Names : LoopDial(name)
    \/ EnqueueCallerConn

(***************************************************************************)
(* Part 7.  Inbound sub-streams (SSHSession.handleSSHNewChannel on the     *)
(* server, Client.connectStreams on the client): the peer asks for a       *)
(* sub-stream to an endpoint it names, the session makes the skeleton      *)
(* endpoint, registers it as a shutdown child, accepts the sub-stream and  *)
(* calls DialAndServe on the endpoint with the wrapped sub-stream.         *)
(***************************************************************************)
\* open requests the peer makes on one session
MaxInbound == 2
Streams == 1..MaxInbound

\* a ChannelEndpointDescriptor
EndpointDescriptor(role, type, path) == [Role |-> role, Type |-> type, Path |-> path]

\* ExtraData that json.Unmarshal refuses
BadJSON == EndpointDescriptor("none", "none", "bad")

\* no open request yet
NoEndpoint == EndpointDescriptor("none", "none", "")

\* the descriptors the peer may name
EndpointRequests ==
    {BadJSON, EndpointDescriptor("stub", "tcp", "p"), EndpointDescriptor("skeleton", "tcp", "p"),
     EndpointDescriptor("skeleton", "tcp", "q"), EndpointDescriptor("skeleton", "loop", "p"),
     EndpointDescriptor("skeleton", "stdio", "p")}

\* the skeletons of the channels of the session's config
GrantedSets ==
    {{}, {EndpointDescriptor("skeleton", "tcp", "p")},
     {EndpointDescriptor("skeleton", "tcp", "p"), EndpointDescriptor("skeleton", "loop", "p")}}

\* NewLocalSkeletonChannelEndpoint returns an endpoint: the role is skeleton,
\* and stdio is refused on the server
SkeletonMade(server, d) ==
    /\ d.Role = "skeleton"
    /\ d.Type \in {"stdio", "loop", "tcp", "unix", "socks"}
    /\ d.Type = "stdio" => ~server

\* what LoopServer.DialAndServe meets: no acceptor under the name, an acceptor
\* whose EnqueueCallerConn refuses, or one that queues the connection
LoopOutcomes == {"NotListening", "EnqueueFailed", "Queued"}

\* everything but the inbound sub-streams
notInboundVars == <<bridgeVars, sessionVars, connVars, onceVars, listenerVars,
                    loopRegVars, lockVars, halfVars>>

\* handleSSHNewChannel / connectStreams up to AddShutdownChild: the request is
\* decoded and the skeleton endpoint is made from the descriptor it carries;
\* nothing compares the descriptor with the config of the session
HandleSSHNewChannel(i, d) ==
    /\ ~sessionDown
    /\ hnc[i] = "none"
    /\ streamReq' = [streamReq EXCEPT ![i] = d]
    /\ IF d = BadJSON
         THEN /\ rejection' = [rejection EXCEPT ![i] = "UnknownChannelType"]
              /\ hnc' = [hnc EXCEPT ![i] = "rejected"]
              /\ UNCHANGED skel
         ELSE IF ~SkeletonMade(isServer, d)
           THEN /\ rejection' = [rejection EXCEPT ![i] = "Prohibited"]
                /\ hnc' = [hnc EXCEPT ![i] = "rejected"]
                /\ UNCHANGED skel
           ELSE /\ skel' = [skel EXCEPT ![i] = "live"]
                /\ hnc' = [hnc EXCEPT ![i] = "made"]
                /\ UNCHANGED rejection
    /\ UNCHANGED <<granted, isServer, sessionDown, streamConn, dialed>>
    /\ UNCHANGED notInboundVars

\* ch.Accept and NewSSHConn, which never fails.  When Accept fails the server
\* closes the endpoint and the client goes on to the next request
ChannelAccept(i) ==
    /\ hnc[i] = "made"
    /\ \E ok \in BOOLEAN :
         IF ok
           THEN /\ streamConn' = [streamConn EXCEPT ![i] = "open"]
                /\ hnc' = [hnc EXCEPT ![i] = "accepted"]
                /\ UNCHANGED skel
           ELSE /\ hnc' = [hnc EXCEPT ![i] = "ended"]
                /\ skel' = IF isServer THEN [skel EXCEPT ![i] = "shutdown"] ELSE skel
                /\ UNCHANGED streamConn
    /\ UNCHANGED <<granted, isServer, sessionDown, streamReq, dialed, rejection>>
    /\ UNCHANGED notInboundVars

\* ep.DialAndServe(ctx, sshConn, extraData) up to the serving.  A loop
\* skeleton returns at once when its shutdown has started and hands the
\* connection to LoopServer.DialAndServe otherwise; every other skeleton
\* dials, closes the connection when the dial fails and bridges otherwise
DialAndServe(i) ==
    /\ hnc[i] = "accepted"
    /\ dialed' = [dialed EXCEPT ![i] = TRUE]
    /\ IF streamReq[i].Type = "loop"
         THEN IF skel[i] # "live"
                THEN /\ hnc' = [hnc EXCEPT ![i] = "returned"]
                     /\ UNCHANGED streamConn
                ELSE \E out \in LoopOutcomes :
                       /\ hnc' = [hnc EXCEPT ![i] =
                                    IF out = "Queued" THEN "serving" ELSE "returned"]
                       /\ streamConn' = IF out = "EnqueueFailed"
                                          THEN [streamConn EXCEPT ![i] = "closed"]
                                          ELSE streamConn
         ELSE \E ok \in BOOLEAN :
                /\ ok \/ streamReq[i].Type # "stdio"
                /\ hnc' = [hnc EXCEPT ![i] = IF ok THEN "serving" ELSE "returned"]
                /\ streamConn' = IF ok THEN streamConn
                                 ELSE [streamConn EXCEPT ![i] = "closed"]
    /\ UNCHANGED <<granted, isServer, sessionDown, streamReq, skel, rejection>>
    /\ UNCHANGED notInboundVars

\* the serving ends: BasicBridgeChannels closes both connections, or
\* WaitForClose returns because whoever accepted the connection closed it;
\* DialAndServe returns and the handler returns after it has logged the result
ServeEnds(i) ==
    /\ hnc[i] = "serving"
    /\ streamConn' = [streamConn EXCEPT ![i] = "closed"]
    /\ hnc' = [hnc EXCEPT ![i] = "returned"]
    /\ UNCHANGED <<granted, isServer, sessionDown, streamReq, skel, dialed, rejection>>
    /\ UNCHANGED notInboundVars

\* the session shuts down: after its handler the goroutines of
\* AddShutdownChild shut down every endpoint that was registered
InboundSessionShutdown ==
    /\ ~sessionDown
    /\ sessionDown' = TRUE
    /\ skel' = [i \in Streams |-> IF skel[i] = "live" THEN "shutdown" ELSE skel[i]]
    /\ UNCHANGED <<granted, isServer, streamReq, hnc, streamConn, dialed, rejection>>
    /\ UNCHANGED notInboundVars

\* a session on which no open request was made
StreamsIdle ==
    /\ sessionDown = FALSE
    /\ streamReq = [i \in Streams |-> NoEndpoint]
    /\ hnc = [i \in Streams |-> "none"]
    /\ skel = [i \in Streams |-> "none"]
    /\ streamConn = [i \in Streams |-> "none"]
    /\ dialed = [i \in Streams |-> FALSE]
    /\ rejection = [i \in Streams |-> "none"]

InboundAtRest == StreamsIdle /\ granted = {} /\ isServer = TRUE

InboundNext ==
    \/ \E i \in Streams :
         \/ \E d \in EndpointRequests : HandleSSHNewChannel(i, d)
         \/ ChannelAccept(i)
         \/ DialAndServe(i)
         \/ ServeEnds(i)
    \/ InboundSessionShutdown

(***************************************************************************)
(* Part 8.  LockedUnixSocketListener (share, pkg/wstnet): the processes    *)
(* that listen on one socket path P with the lock file P.lock.  Each       *)
(* system call of NewLockedUnixSocketListener and of Close is one step.    *)
(* A file is an inode; the lock of flock belongs to the inode, whatever    *)
(* name links to it.                                                       *)
(***************************************************************************)
\* calls of NewLockedUnixSocketListener made by all the processes
MaxListens == 4

Procs == 1..3
NoProc == 0

\* the inodes a lock file can have; one is always free, since at most two
\* other processes hold a descriptor when a process opens the file
Inodes == 1..3
NoInode == 0

\* the inodes that no name and no descriptor refers to
FreeInodes == {n \in Inodes : n # lockFile /\ \A q \in Procs : fdOf[q] # n}

\* everything but the locked listeners
notLockVars == <<bridgeVars, sessionVars, connVars, onceVars, listenerVars,
                 loopRegVars, inboundVars, halfVars>>

\* os.Stat(abspath): info is kept for the orphan cleanup
LockedStat(p) ==
    /\ ppc[p] = "idle"
    /\ nOpens < MaxListens
    /\ nOpens' = nOpens + 1
    /\ info' = [info EXCEPT ![p] = sockOwner # NoProc]
    /\ ppc' = [ppc EXCEPT ![p] = "stated"]
    /\ UNCHANGED <<lockFile, holder, fdOf, sockOwner>>
    /\ UNCHANGED notLockVars

\* os.OpenFile(lockPath, O_WRONLY|O_APPEND|O_CREATE): the file the name links
\* to, or a new file under that name
LockedOpenFile(p) ==
    /\ ppc[p] = "stated"
    /\ LET n == IF lockFile # NoInode THEN lockFile
                ELSE CHOOSE m \in FreeInodes : \A k \in FreeInodes : m <= k
       IN /\ lockFile' = n
          /\ fdOf' = [fdOf EXCEPT ![p] = n]
    /\ ppc' = [ppc EXCEPT ![p] = "opened"]
    /\ UNCHANGED <<holder, sockOwner, info, nOpens>>
    /\ UNCHANGED notLockVars

\* syscall.Flock(fd, LOCK_EX|LOCK_NB): it fails when another descriptor
\* holds the lock of the file; the constructor then closes its descriptor
LockedFlock(p) ==
    /\ ppc[p] = "opened"
    /\ IF holder[fdOf[p]] = NoProc
         THEN /\ holder' = [holder EXCEPT ![fdOf[p]] = p]
              /\ ppc' = [ppc EXCEPT ![p] = "locked"]
              /\ UNCHANGED fdOf
         ELSE /\ fdOf' = [fdOf EXCEPT ![p] = NoInode]
              /\ ppc' = [ppc EXCEPT ![p] = "idle"]
              /\ UNCHANGED holder
    /\ UNCHANGED <<lockFile, sockOwner, info, nOpens>>
    /\ UNCHANGED notLockVars

\* the orphan cleanup: os.Remove(abspath) when the stat found a socket; the
\* constructor calls Close when the removal fails
LockedRemoveOrphan(p) ==
    /\ ppc[p] = "locked"
    /\ IF info[p]
         THEN IF sockOwner # NoProc
                THEN sockOwner' = NoProc /\ ppc' = [ppc EXCEPT ![p] = "cleaned"]
                ELSE UNCHANGED sockOwner /\ ppc' = [ppc EXCEPT ![p] = "closing"]
         ELSE UNCHANGED sockOwner /\ ppc' = [ppc EXCEPT ![p] = "cleaned"]
    /\ UNCHANGED <<lockFile, holder, fdOf, info, nOpens>>
    /\ UNCHANGED notLockVars

\* net.Listen("unix", abspath), which fails when the path exists; the
\* constructor calls Close when it fails and returns the listener otherwise
LockedListen(p) ==
    /\ ppc[p] = "cleaned"
    /\ IF sockOwner = NoProc
         THEN sockOwner' = p /\ ppc' = [ppc EXCEPT ![p] = "live"]
         ELSE UNCHANGED sockOwner /\ ppc' = [ppc EXCEPT ![p] = "closing"]
    /\ UNCHANGED <<lockFile, holder, fdOf, info, nOpens>>
    /\ UNCHANGED notLockVars

\* Close of a listener that listens: os.Remove(l.path), whatever socket file
\* the path names now, and unixListener.Close
LockedClose(p) ==
    /\ ppc[p] = "live"
    /\ sockOwner' = NoProc
    /\ ppc' = [ppc EXCEPT ![p] = "closing"]
    /\ UNCHANGED <<lockFile, holder, fdOf, info, nOpens>>
    /\ UNCHANGED notLockVars

\* Close: os.Remove(l.lockPath), whatever file the name links to now, its
\* error ignored
LockedRemoveLockFile(p) ==
    /\ ppc[p] = "closing"
    /\ lockFile' = NoInode
    /\ ppc' = [ppc EXCEPT ![p] = "unlinked"]
    /\ UNCHANGED <<holder, fdOf, sockOwner, info, nOpens>>
    /\ UNCHANGED notLockVars

\* Close: syscall.Flock(fd, LOCK_UN) and lockFd.Close
LockedUnlock(p) ==
    /\ ppc[p] = "unlinked"
    /\ holder' = [holder EXCEPT ![fdOf[p]] = NoProc]
    /\ fdOf' = [fdOf EXCEPT ![p] = NoInode]
    /\ ppc' = [ppc EXCEPT ![p] = "idle"]
    /\ UNCHANGED <<lockFile, sockOwner, info, nOpens>>
    /\ UNCHANGED notLockVars

\* no socket file, no lock file, no listener
LockedAtRest ==
    /\ lockFile = NoInode
    /\ holder = [n \in Inodes |-> NoProc]
    /\ fdOf = [p \in Procs |-> NoInode]
    /\ sockOwner = NoProc
    /\ info = [p \in Procs |-> FALSE]
    /\ ppc = [p \in Procs |-> "idle"]
    /\ nOpens = 0

LockedNext ==
    \E p \in Procs :
        \/ LockedStat(p)
        \/ LockedOpenFile(p)
        \/ LockedFlock(p)
        \/ LockedRemoveOrphan(p)
        \/ LockedListen(p)
        \/ LockedClose(p)
        \/ LockedRemoveLockFile(p)
        \/ LockedUnlock(p)

(***************************************************************************)
(* Part 9.  The write half of a Bipipe (netConnBipipe of pkg/wstnet,       *)
(* SocketConn, PipeConn and SSHConn of share): CloseWrite, Write, Read and *)
(* Close on one Bipipe, whose peer writes and then closes its own write    *)
(* half.                                                                   *)
(***************************************************************************)
\* calls of Write made on the Bipipe
MaxWrites == 3
\* bytes the peer writes
MaxPeer == 2

\* the implementations of Bipipe and of ChannelConn
Variants == {"netConnBipipe", "SocketConn", "PipeConn", "SSHConn"}

\* CloseWrite closes the write side of what the Bipipe wraps: netConnBipipe
\* and SocketConn only when the net.Conn is a WriteHalfCloser, PipeConn by
\* closing its output, SSHConn by the CloseWrite of the ssh.Channel
HalfCloses(v, can) == v \in {"PipeConn", "SSHConn"} \/ can

\* everything but the Bipipe
notHalfVars == <<bridgeVars, sessionVars, connVars, onceVars, listenerVars,
                 loopRegVars, inboundVars, lockVars>>

\* CloseWrite.  netConnBipipe defers the shutdown first and does nothing
\* when the shutdown has started
BipipeCloseWrite ==
    /\ cwReturned' = TRUE
    /\ writeHalf' = IF variant = "netConnBipipe" /\ bpClosed THEN writeHalf
                    ELSE IF HalfCloses(variant, canHalfClose) THEN "closed"
                    ELSE writeHalf
    /\ UNCHANGED <<variant, canHalfClose, bpClosed, wres, lateWrite, nWrites,
                   peerLeft, peerEOF, rres>>
    /\ UNCHANGED notHalfVars

\* Write, passed to what the Bipipe wraps, which refuses when its write side
\* or the whole of it is closed
BipipeWrite ==
    /\ nWrites < MaxWrites
    /\ nWrites' = nWrites + 1
    /\ LET res == IF writeHalf = "closed" \/ bpClosed THEN "error" ELSE "ok"
       IN /\ wres' = res
          /\ lateWrite' = IF cwReturned THEN res ELSE lateWrite
    /\ UNCHANGED <<variant, canHalfClose, cwReturned, writeHalf, bpClosed,
                   peerLeft, peerEOF, rres>>
    /\ UNCHANGED notHalfVars

\* Read: a byte of the peer, end-of-stream once the peer closed its write
\* half and its bytes are read, an error once the Bipipe is closed
BipipeRead ==
    /\ bpClosed \/ peerLeft > 0 \/ peerEOF
    /\ IF bpClosed
         THEN rres' = "error" /\ UNCHANGED peerLeft
         ELSE IF peerLeft > 0
           THEN rres' = "byte" /\ peerLeft' = peerLeft - 1
           ELSE rres' = "EOF" /\ UNCHANGED peerLeft
    /\ UNCHANGED <<variant, canHalfClose, cwReturned, writeHalf, bpClosed, wres,
                   lateWrite, nWrites, peerEOF>>
    /\ UNCHANGED notHalfVars

\* Close: the shutdown handler closes what the Bipipe wraps
BipipeClose ==
    /\ ~bpClosed
    /\ bpClosed' = TRUE
    /\ writeHalf' = "closed"
    /\ UNCHANGED <<variant, canHalfClose, cwReturned, wres, lateWrite, nWrites,
                   peerLeft, peerEOF, rres>>
    /\ UNCHANGED notHalfVars

\* the peer writes a byte
PeerWrite ==
    /\ ~peerEOF
    /\ peerLeft < MaxPeer
    /\ peerLeft' = peerLeft + 1
    /\ UNCHANGED <<variant, canHalfClose, cwReturned, writeHalf, bpClosed, wres,
                   lateWrite, nWrites, peerEOF, rres>>
    /\ UNCHANGED notHalfVars

\* the peer closes its write half
PeerCloseWrite ==
    /\ ~peerEOF
    /\ peerEOF' = TRUE
    /\ UNCHANGED <<variant, canHalfClose, cwReturned, writeHalf, bpClosed, wres,
                   lateWrite, nWrites, peerLeft, rres>>
    /\ UNCHANGED notHalfVars

\* a Bipipe on which nothing was called
HalfIdle ==
    /\ cwReturned = FALSE
    /\ writeHalf = "open"
    /\ bpClosed = FALSE
    /\ wres = "none"
    /\ lateWrite = "none"
    /\ nWrites = 0
    /\ peerLeft = 0
    /\ peerEOF = FALSE
    /\ rres = "none"

HalfAtRest == HalfIdle /\ variant = "netConnBipipe" /\ canHalfClose = TRUE

HalfNext ==
    \/ BipipeCloseWrite
    \/ BipipeWrite
    \/ BipipeRead
    \/ BipipeClose
    \/ PeerWrite
    \/ PeerCloseWrite

\* no listener, no loop stub, no sub-stream and no Bipipe has been used
EndpointsAtRest ==
    ListenerAtRest /\ LoopAtRest /\ InboundAtRest /\ LockedAtRest /\ HalfAtRest

(***************************************************************************)
(* Specifications                                                          *)
(***************************************************************************)
\* every Bipipe keeps the Read/Write contract, as every Bipipe of the
\* repository does
Init ==
    /\ BridgeInit /\ faulty = FALSE
    /\ SessionAtRest /\ ClientAtRest /\ OnceAtRest /\ EndpointsAtRest
Next == BridgeNext
Spec == Init /\ [][Next]_vars

\* The scheduling of the bridge's goroutines: every step that does not wait
\* for the peer is eventually taken.  A Read of a Bipipe that is still active
\* may block for ever; a Read of a Bipipe whose shutdown has started returns.
Fairness ==
    /\ \A w \in Edges :
          /\ WF_vars(WorkerRead(w) /\ pst[w] # "active")
          /\ WF_vars(WorkerWrite(w))
          /\ WF_vars(WorkerCloseWrite(w))
          /\ WF_vars(WorkerReport(w))
          /\ WF_vars(WorkerStartShutdown(w))
          /\ WF_vars(HandlerStartPipe(w))
          /\ WF_vars(HandlerWaitPipe(w))
          /\ WF_vars(PipeHandleOnceShutdown(w))
    /\ WF_vars(JoinForwarders)
    /\ WF_vars(HandlerJoin)
    /\ WF_vars(HandlerReturn)

\* termination is explored for the bridge that has one io.Copy worker and one
\* buffered worker
LiveInit == Init /\ ~publishProgress /\ ~isReaderFrom[0]
LiveSpec == LiveInit /\ [][Next]_vars /\ Fairness

\* the Bipipes may break the Read/Write contract
FaultyInit ==
    /\ BridgeInit /\ faulty = TRUE
    /\ SessionAtRest /\ ClientAtRest /\ OnceAtRest /\ EndpointsAtRest
FaultySpec == FaultyInit /\ [][Next]_vars

\* one session of a server, next to a bridge that has not moved yet
SessionSpecInit ==
    /\ SessionInit /\ BridgeInit /\ faulty = FALSE /\ publishProgress
    /\ ClientAtRest /\ OnceAtRest /\ EndpointsAtRest
SessionSpec == SessionSpecInit /\ [][SessionNext]_vars

\* The scheduling of the goroutines of the session: every step of the server
\* that waits for nothing but the passing of time is eventually taken.
\* What the client does, the cancelling of the context and the SSH
\* handshake, which ends when the client completes or abandons it, are not
\* bound to happen.
SessionFairness ==
    /\ WF_vars(StartSession)
    /\ WF_vars(Tick)
    /\ WF_vars(Receive)
    /\ WF_vars(Validate)
    /\ WF_vars(Listen)
    /\ WF_vars(Reply)
    /\ WF_vars(Return)
    /\ WF_vars(RunFinish)
    /\ WF_vars(ServeRequest)
    /\ WF_vars(ServeChannel)
    /\ WF_vars(ConnWait)
    /\ WF_vars(ContextWatch)
    /\ WF_vars(SessionHandleOnceShutdown)
    /\ \A i \in 1..MaxChannels : WF_vars(ProxyShutdown(i))
    /\ WF_vars(SessionShutdownDone)

\* the shutdown of a session is explored on a server with reverse mode
\* enabled and one user who may open every channel
SessionLiveInit == SessionSpecInit /\ reverseOk /\ users = UserOf(<<AllowAll>>)
SessionLiveSpec == SessionLiveInit /\ [][SessionNext]_vars /\ SessionFairness

\* a session whose config request was accepted, whose listener accepts and
\* whose client has opened one sub-stream, which handleSSHChannels took up
SessionRunning ==
    /\ users = NoUser
    /\ reverseOk = TRUE
    /\ sessions = NoUser
    /\ spc = "running"
    /\ user = NoUser
    /\ r = NoRequest
    /\ chdIndex = 0
    /\ serr = "nil"
    /\ sshConn = TRUE
    /\ sshRequests = <<>>
    /\ newSSHChannels = 0
    /\ nSent = 1
    /\ nOpened = 1
    /\ connClosed = FALSE
    /\ ctxDone = FALSE
    /\ elapsed = 0
    /\ listeners = {1}
    /\ reply = [ok |-> TRUE, payload |-> ""]
    /\ reqLoop = TRUE
    /\ chanLoop = TRUE
    /\ pingsServed = 0
    /\ chansServed = 1
    /\ shutdownPauseCount = 0
    /\ isScheduledShutdown = FALSE
    /\ isStartedShutdown = FALSE
    /\ isDoneShutdown = FALSE
    /\ shutdownErr = "nil"
    /\ shutdownHandlerDone = FALSE
    /\ accepting = {1}
    /\ firstType = "config"
    /\ panicked = FALSE
    /\ timedOut = FALSE

\* the bridge of one Channel of a running session, in one process with that
\* session; the Bipipes may break the Read/Write contract
ChannelInit ==
    /\ BridgeInit /\ faulty = TRUE /\ publishProgress /\ SessionRunning
    /\ ClientAtRest /\ OnceAtRest /\ EndpointsAtRest
ChannelSpec == ChannelInit /\ [][Next]_vars

\* one client, next to a bridge and a server that have not moved yet
ClientSpecInit ==
    /\ ClientInit /\ SessionAtRest /\ BridgeInit /\ faulty = FALSE /\ publishProgress
    /\ OnceAtRest /\ EndpointsAtRest
ClientSpec == ClientSpecInit /\ [][ClientNext]_vars

\* The scheduling of the client's goroutines: every step of the program is
\* eventually taken.  The network, the server, the stub's peers and whoever
\* holds the context act when they like, and a sub-stream lasts as long as
\* its two ends keep it open.
ClientFairness ==
    /\ WF_vars(ClientRun)
    /\ WF_vars(LoopTop)
    /\ WF_vars(Dial)
    /\ WF_vars(Handshake)
    /\ WF_vars(Config)
    /\ WF_vars(ConnWaitReturn)
    /\ WF_vars(LoopClose)
    /\ WF_vars(LoopExit)
    /\ WF_vars(ClientContextWatch)
    /\ WF_vars(ClientHandleOnceShutdown)
    /\ WF_vars(RunReturn)
    /\ WF_vars(Exit)
    /\ WF_vars(GetReturn)
    /\ WF_vars(StreamTake)
    /\ WF_vars(StreamEnd /\ connDown)
ClientLiveSpec == ClientSpecInit /\ [][ClientNext]_vars /\ ClientFairness

\* one object that embeds a ShutdownHelper, next to a bridge and a client
\* that have not moved yet
HelperSpecInit ==
    /\ OnceAtRest /\ EndpointsAtRest /\ SessionAtRest /\ ClientAtRest
    /\ BridgeInit /\ faulty = FALSE /\ publishProgress
HelperSpec == HelperSpecInit /\ [][HelperNext]_vars

\* one netBipipeListener, next to a bridge and a client that have not moved
ListenerSpecInit ==
    /\ EndpointsAtRest /\ OnceAtRest /\ SessionAtRest /\ ClientAtRest
    /\ BridgeInit /\ faulty = FALSE /\ publishProgress
ListenerSpec == ListenerSpecInit /\ [][ListenerNext]_vars

\* The scheduling of the listener's goroutines: HandleOnceShutdown runs, a
\* nl.Accept on a closed net.Listener returns, and a select that has a
\* connection or the closed newConns to receive returns.  Clients connect,
\* and callers call Accept, cancel and shut down, when they like.
ListenerFairness ==
    /\ WF_vars(ListenerHandleOnceShutdown)
    /\ WF_vars(ListenerDrain)
    /\ WF_vars(AcceptorFail /\ lpc = "waitAcceptor")
    /\ \A i \in Callers :
          /\ WF_vars(AcceptReceive(i))
          /\ WF_vars(AcceptClosed(i))
ListenerLiveSpec == ListenerSpecInit /\ [][ListenerNext]_vars /\ ListenerFairness

\* one loop registry with its stubs and a dialer
LoopSpecInit ==
    /\ EndpointsAtRest /\ OnceAtRest /\ SessionAtRest /\ ClientAtRest
    /\ BridgeInit /\ faulty = FALSE /\ publishProgress
LoopSpec == LoopSpecInit /\ [][LoopNext]_vars

\* The scheduling of the stubs' goroutines: HandleOnceShutdown runs, and a
\* dialer that holds an acceptor calls it.
LoopFairness ==
    /\ \A s \in Stubs :
          /\ WF_vars(LoopHandleOnceShutdown(s))
          /\ WF_vars(LoopDrain(s))
    /\ WF_vars(EnqueueCallerConn)
LoopLiveSpec == LoopSpecInit /\ [][LoopNext]_vars /\ LoopFairness

\* the inbound sub-streams of one session, of a server or of a client, next
\* to parts that have not moved yet
InboundSpecInit ==
    /\ StreamsIdle /\ granted \in GrantedSets /\ isServer \in BOOLEAN
    /\ ListenerAtRest /\ LoopAtRest /\ LockedAtRest /\ HalfAtRest
    /\ OnceAtRest /\ SessionAtRest /\ ClientAtRest
    /\ BridgeInit /\ faulty = FALSE /\ publishProgress
InboundSpec == InboundSpecInit /\ [][InboundNext]_vars

\* the processes that listen on one socket path, next to parts that have
\* not moved yet
LockedSpecInit ==
    /\ EndpointsAtRest /\ OnceAtRest /\ SessionAtRest /\ ClientAtRest
    /\ BridgeInit /\ faulty = FALSE /\ publishProgress
LockedSpec == LockedSpecInit /\ [][LockedNext]_vars

\* one Bipipe of any implementation, next to parts that have not moved yet
HalfSpecInit ==
    /\ HalfIdle /\ variant \in Variants /\ canHalfClose \in BOOLEAN
    /\ ListenerAtRest /\ LoopAtRest /\ InboundAtRest /\ LockedAtRest
    /\ OnceAtRest /\ SessionAtRest /\ ClientAtRest
    /\ BridgeInit /\ faulty = FALSE /\ publishProgress
HalfSpec == HalfSpecInit /\ [][HalfNext]_vars

(***************************************************************************)
(* Properties of the BipipeBridge                                          *)
(***************************************************************************)
IsPrefix(s, t) == Len(s) <= Len(t) /\ s = SubSeq(t, 1, Len(s))

\* the worker reading edge w reached end-of-stream and finished without error
CleanWorker(w) == pc[w] = "done" /\ err[w] = Nil

\* the errors the forwarding workers ended with
WorkerErrs == {err[w] : w \in Edges} \ {Nil}

C2_InOrder ==
    \A w \in Edges :
        /\ IsPrefix(sink[Other(w)], Stream(w, rd[w]))
        /\ CleanWorker(w) => sink[Other(w)] = Stream(w, rd[w])

C2_Witness ==
    \E w \in Edges : CleanWorker(w) /\ ~useCopy(w) /\ Len(sink[Other(w)]) = MaxData

\* C3: the bridge calls CloseWrite on a sink only after its source reported
\* end-of-stream and every byte read from the source was written to the sink,
\* and it never writes to a sink after calling CloseWrite on it.
C3_HalfClose ==
    /\ \A w \in Edges :
          cwCalled[Other(w)] => (eofSeen[w] /\ sink[Other(w)] = Stream(w, rd[w]))
    /\ ~wroteAfterClose

C3_Witness ==
    /\ \A i \in Edges : cwCalled[i] /\ writeClosed[i]
    /\ rd[0] > 0
    /\ useCopy(0)

\* both workers forwarded everything up to end-of-stream without error and
\* both bipipes shut down cleanly
AllClean ==
    \A w \in Edges : CleanWorker(w) /\ eofSeen[w] /\ pfinal[w] = Nil

\* C7 as stated: the completion value of a bridge is nil only if both workers
\* forwarded all bytes up to end-of-stream without error and both bipipes shut
\* down cleanly, and in every other run it is the first error observed.
C7_Original ==
    bbDone => /\ (bbErr = Nil => AllClean)
              /\ (~AllClean => bbErr = firstErr)

\* C7 amended: the completion value of a bridge is the cause of the first
\* shutdown request if that is not nil, else the first non-nil final status of
\* the two bipipes, else nil; and when no shutdown was requested from outside
\* it is nil only if both workers forwarded all bytes up to end-of-stream
\* without error and both bipipes shut down cleanly.
C7_Completion ==
    bbDone =>
        /\ bbErr = (IF completionErr # Nil THEN completionErr
                    ELSE IF pfinal[0] # Nil THEN pfinal[0] ELSE pfinal[1])
        /\ (bbErr = Nil /\ extCalls = 0) =>
              (AllClean /\ \A w \in Edges : sink[Other(w)] = Stream(w, rd[w]))

C7_Witness ==
    /\ bbDone
    /\ extCalls = 0
    /\ bbErr # Nil
    /\ bbErr \in WorkerErrs

\* C8 as stated: when a worker has observed an error (before any shutdown was
\* requested), the advisory cause passed to each bridged bipipe is the first
\* error observed.
C8_Original ==
    \A i \in Edges : (errFirst /\ pst[i] # "active") => pcause[i] = firstErr

\* C8 amended: when a worker has observed an error before any shutdown was
\* requested, both bipipes are shut down by the time the bridge completes, and
\* the advisory cause passed to each of them is the cause of the first
\* shutdown request: the error of one of the workers, or the cause of a
\* request made from outside.
C8_AdvisoryCause ==
    /\ bbDone => \A i \in Edges : pst[i] = "done"
    /\ \A i \in Edges :
          (errFirst /\ pst[i] # "active") =>
             /\ pcause[i] = completionErr
             /\ pcause[i] \in WorkerErrs
                   \cup (IF extCalls > 0 THEN {Nil, Err("external", 0)} ELSE {})

C8_Witness ==
    /\ errFirst
    /\ extCalls = 0
    /\ \A i \in Edges : pst[i] = "done" /\ pcause[i] = firstErr /\ pcause[i] # Nil

\* what C9 says brings a bridge down: both sources have reached end-of-stream,
\* or a worker has observed an error, or shutdown has been requested
ShutdownDue ==
    \/ \A w \in Edges : eofSeen[w]
    \/ \E w \in Edges : err[w] # Nil
    \/ bbScheduled

\* C9: once both sources have reached end-of-stream, or a worker has observed
\* an error, or shutdown has been requested, the bridge eventually reaches
\* shutdown-complete: both workers finish and HandleOnceShutdown returns.
C9_Terminates == ShutdownDue ~> (bbDone /\ hpc = "done" /\ \A w \in Edges : pc[w] = "done")

C9_Witness ==
    /\ bbDone /\ hpc = "done"
    /\ \A w \in Edges : pc[w] = "done"
    /\ \E w \in Edges : err[w] = ErrClosed(w) /\ rd[w] < MaxData /\ ~eofSeen[w]

\* C10 as stated: a buffered worker that has seen its source return zero bytes
\* with no error, or its sink accept fewer bytes than offered with no error,
\* goes on to abort the bridge with a non-nil cause.
C10_Original ==
    \A w \in Edges :
        (violated[w] /\ ~useCopy(w)) =>
            (~crashed /\ err[w] # Nil /\ pc[w] \in {"report", "start", "done"})

(***************************************************************************)
(* Properties of the server session                                        *)
(***************************************************************************)
\* some pattern of user u matches the string form of descriptor d
Matched(u, d) == \E k \in 1..Len(u.Addrs) : MatchString(u.Addrs[k], ChdString(d))

\* every descriptor of the request received is matched by a pattern of the
\* user found for the connection
AllMatched == \A i \in 1..Len(r.chds) : Matched(user, r.chds[i])

\* the request received names a reverse channel
HasReverse == \E i \in 1..Len(r.chds) : r.chds[i].Reverse

\* startWithSSHConn is about to return, having received a well-formed config
\* request
ConfigSettled == spc = "return" /\ r.Type = "config" /\ r.valid

\* startWithSSHConn returns nil after the success reply
Accepted == serr = "nil" /\ reply = [ok |-> TRUE, payload |-> ""]

\* the session answered with the rejection that carries reason e and
\* scheduled its shutdown with it
Rejected(e) ==
    /\ serr = e
    /\ reply = [ok |-> FALSE, payload |-> e]
    /\ isScheduledShutdown

\* C4 as stated: on a server with users configured, the config request is
\* accepted exactly when some pattern of the user who authenticated the
\* connection matches the string form of each of its channel descriptors.
C4_Original ==
    (ConfigSettled /\ users # NoUser) => (Accepted <=> AllMatched)

\* C4: for a connection a user authenticated, a config request with a
\* descriptor that no pattern of the user matches is rejected and starts no
\* listener; a config request whose descriptors are all matched by some
\* pattern of the user is never denied access, and is accepted unless reverse
\* mode is disabled for a reverse descriptor in it, a stub listener of a
\* reverse descriptor fails to start, or the success reply cannot be sent.
\* A connection for which the session map holds no user is never denied
\* access.
C4_AccessCheck ==
    /\ (ConfigSettled /\ user = NoUser) => serr # "AccessDenied"
    /\ (ConfigSettled /\ user # NoUser) =>
            /\ ~AllMatched =>
                  /\ Rejected("AccessDenied") \/ Rejected("ReverseNotEnabled")
                  /\ listeners = {}
            /\ AllMatched =>
                  /\ \/ Accepted
                     \/ Rejected("ReverseNotEnabled")
                     \/ Rejected("ListenerStart")
                     \/ serr = "ReplySend"
                  /\ serr = "ReverseNotEnabled" => (HasReverse /\ ~reverseOk)
                  /\ serr = "ListenerStart" => HasReverse
                  /\ serr = "ReplySend" => (connClosed \/ ctxDone)

\* a request of two descriptors is accepted for a user whose first pattern
\* does not match one of them
C4_Witness ==
    /\ ConfigSettled
    /\ user # NoUser
    /\ Accepted
    /\ Len(r.chds) = 2
    /\ Len(user.Addrs) = 2
    /\ \E i \in 1..2 : ~MatchString(user.Addrs[1], ChdString(r.chds[i]))

\* C5: a server with reverse mode disabled has no stub listener; a config
\* request with a reverse descriptor anywhere in it gets past the checks to
\* the listener loop only with reverse mode enabled, and with reverse mode
\* disabled it is answered by a rejection that carries a reason, the session
\* is scheduled for shutdown and no listener was started.  Listeners are
\* started for reverse descriptors only.
C5_ReverseDisabled ==
    /\ ~reverseOk => listeners = {}
    /\ (spc \in {"listen", "reply"} /\ HasReverse) => reverseOk
    /\ (ConfigSettled /\ HasReverse /\ ~reverseOk) =>
          /\ Rejected("ReverseNotEnabled")
          /\ reply.payload # ""
          /\ listeners = {}
    /\ spc \in {"listen", "reply", "return"} =>
          \A i \in listeners : i \in 1..Len(r.chds) /\ r.chds[i].Reverse

\* with reverse mode disabled a request whose second descriptor is the
\* reverse one has been rejected
C5_Witness ==
    /\ ConfigSettled
    /\ ~reverseOk
    /\ Len(r.chds) = 2
    /\ ~r.chds[1].Reverse
    /\ r.chds[2].Reverse
    /\ Rejected("ReverseNotEnabled")

\* startWithSSHConn is over: it is about to return, has returned, or has
\* panicked
HandshakeOver == spc \in {"return", "running", "failed", "closed", "panic"}

\* C6 as stated: a listener is started and a ping or a sub-stream is served
\* only if the first request the session received was a config request that
\* came before the timeout; and once startWithSSHConn is over without a
\* config request as the first request received, the shutdown of the session
\* is scheduled.
C6_Original ==
    /\ (listeners # {} \/ pingsServed > 0 \/ chansServed > 0) =>
          (firstType = "config" /\ ~timedOut)
    /\ (HandshakeOver /\ sshConn /\ firstType # "config") => isScheduledShutdown

\* C11 as stated: once the context of the session is cancelled, the session
\* eventually is shut down completely, and by then its SSH connection, if it
\* has one, is closed and none of the stub listeners it started accepts
\* connections.
C11_Original ==
    ctxDone ~> (isDoneShutdown /\ (sshConn => connClosed) /\ accepting = {})

(***************************************************************************)
(* Properties of the Channels of a session                                 *)
(***************************************************************************)
\* the bridge of the Channel has failed: a worker observed an error or saw a
\* Bipipe break the I/O contract
BridgeFailed == firstErr # Nil \/ \E w \in Edges : violated[w]

C13_Original == (streampc = "serve" /\ chans > 0) ~> (chans = 0)

\* the loop was left because the client gave up connecting
GaveUp == loopEnd \in {"RetryLimit"} \cup HandshakeErrors \cup ConfigErrors

\* C14 as stated: after an established session was lost by a transport
\* failure, a client without a retry limit whose context is not cancelled
\* goes on to connect again: it does not shut down.
C14_Original == (lost /\ ~cCtxDone /\ maxRetryCount = -1) => ~cScheduled

\* C15 as stated: the connection loop is left only by an authentication
\* failure, by the retry limit, by the end of an established session or by
\* the shutdown of the client; an attempt that fails in another way is
\* followed by another attempt.
C15_Original ==
    loopEnd \in {"running", "AuthFailed", "RetryLimit", "Disconnected", "Shutdown"}

\* C16 as stated: with a maximum attempt count N >= 0 the client makes at most
\* N connection attempts.
C16_Original == maxRetryCount >= 0 => dials <= maxRetryCount

\* C16, amended: with Config.MaxRetryCount = N >= 0 the client makes at most
\* N + 1 connection attempts, the first one and N retries, and it gives up by
\* the count exactly when attempt N + 1 has failed; with -1 the count never
\* makes it give up.
C16_Attempts ==
    /\ maxRetryCount >= 0 => dials <= maxRetryCount + 1
    /\ loopEnd = "RetryLimit" => (maxRetryCount >= 0 /\ dials = maxRetryCount + 1)

\* the client gave up by the largest count explored, after all its retries
C16_Witness ==
    loopEnd = "RetryLimit" /\ maxRetryCount = MaxRetry /\ dials = MaxRetry + 1

\* C17 as stated: once the client has given up, Client.Run returns a non-nil
\* error and the process exits with a status other than zero.
C17_Original ==
    GaveUp =>
        /\ runpc = "returned" => runErr # "nil"
        /\ exitStatus # NotExited => exitStatus # 0

\* C18 as stated: every call of GetSSHConn eventually returns.
C18_Original == (getpc = "waiting") ~> (getpc = "returned")

\* C19 as stated: for a channel whose stub is stdio, once the session is
\* healthy the client connects the stub, once.
C19_Original == (stubType = "stdio" /\ sshConnReady) ~> (stubConns = 1)

(***************************************************************************)
(* Properties of the ShutdownHelper                                        *)
(***************************************************************************)
\* C20: whatever the order of the calls, HandleOnceShutdown is invoked at most
\* once, and whenever the shutdown is scheduled and the pause count is zero
\* it has been invoked once or the caller that started the shutdown is about
\* to invoke it.
C20_HandlerOnce ==
    /\ handlerCalls + pendingStarts <= 1
    /\ (isScheduledShutdown /\ shutdownPauseCount = 0) =>
           handlerCalls + pendingStarts = 1

\* the shutdown was scheduled while it was paused and has completed after
\* the pause count returned to zero, with the context cancelled as well
C20_Witness ==
    /\ handlerCalls = 1
    /\ isDoneShutdown
    /\ shutdownPauseCount = 0
    /\ shutdownErr = "Failed"
    /\ ~isActivated
    /\ ctxDone
    /\ apiCalls = MaxCalls

\* C21: a shutdown scheduled while the pause count is above zero starts
\* exactly when the count returns to zero: while the count is above zero
\* HandleOnceShutdown has not been invoked and nobody is about to invoke it,
\* and the step that takes the count of a scheduled shutdown to zero starts
\* the shutdown itself, its caller being the one to invoke the handler.
C21_StartsAtDrain ==
    /\ [](shutdownPauseCount > 0 =>
            (handlerCalls + pendingStarts = 0 /\ ~isStartedShutdown))
    /\ [][(isScheduledShutdown /\ shutdownPauseCount > 0 /\ shutdownPauseCount' = 0)
            => (isStartedShutdown' /\ pendingStarts' = 1 /\ apiCalls' = apiCalls)]_vars

\* ResumeShutdown started a shutdown that was scheduled under a pause, and
\* the handler has been invoked
C21_Witness ==
    startedBy = "ResumeShutdown" /\ handlerCalls = 1 /\ shutdownPauseCount = 0

\* C22 as stated: the cause handed to HandleOnceShutdown is the first cause
\* other than nil that a caller supplied before the handler was invoked.
C22_Original ==
    [][handlerCalls' = handlerCalls + 1 => shutdownErr = firstCause]_vars

\* C23 as stated: the helper is never shutdown-complete while a registered
\* child is not, whenever the child was registered, and the helper starts
\* the shutdown of a child only after its own handler has returned.
C23_Original ==
    /\ []((isDoneShutdown /\ childpc # "none") => childSt = "done")
    /\ [][(childpc = "watch" /\ childpc' = "wait") => shutdownHandlerDone]_vars

\* the place of the helper in the lifecycle: 0 unactivated, 1 active,
\* 2 shutdown-scheduled, 3 shutting-down, 4 shutdown-complete
LifecycleState ==
    IF isDoneShutdown THEN 4
    ELSE IF isStartedShutdown THEN 3
    ELSE IF isScheduledShutdown THEN 2
    ELSE IF isActivated THEN 1
    ELSE 0

\* C24: the lifecycle state only moves forward along unactivated, active,
\* shutdown-scheduled, shutting-down, shutdown-complete: no flag is ever
\* reset, a complete shutdown was started, and a started one was scheduled.
C24_Forward ==
    /\ [](isDoneShutdown => isStartedShutdown)
    /\ [](isStartedShutdown => isScheduledShutdown)
    /\ [][LifecycleState' >= LifecycleState]_vars
    /\ [][isActivated => isActivated']_vars

\* an activated helper has gone through every state up to shutdown-complete
C24_Witness == isActivated /\ isDoneShutdown /\ startedBy = "StartShutdown"

C39_Original == activateCalls <= 1

(***************************************************************************)
(* Properties of the netBipipeListener                                     *)
(***************************************************************************)
\* the calls that have returned
Returned(res) == res \notin {"idle", "waiting"}

\* the connections Accept calls have received
Delivered == Cardinality({i \in Callers : acc[i] = "Bipipe"})

\* C25 as stated: every Accept call that is pending or issued after the
\* listener has been shut down without error returns
\* ErrBipipeListenerClosed, with the persistent flag set and no connection.
C25_Original ==
    [][\A i \in Callers :
         (/\ lpc = "done"
          /\ lcause = "nil"
          /\ ~Returned(acc[i])
          /\ Returned(acc'[i])
          /\ acc'[i] # "Canceled")
             => acc'[i] = "ErrBipipeListenerClosed"]_vars

\* C26: cancelling one Accept call makes only that call return, with the
\* persistent flag clear: the step leaves the listener, the acceptor, the
\* connection it holds and every other call as they are, and a connection
\* leaves the acceptor only by being delivered to an Accept call.
C26_CancelOnlyThatCall ==
    /\ [][\A i \in Callers :
            (acc[i] = "waiting" /\ acc'[i] = "Canceled") =>
                /\ ~ErrIsPersistent(acc'[i])
                /\ UNCHANGED <<lpc, lcause, apc, nAccepted, nClosed>>
                /\ \A j \in Callers \ {i} : acc'[j] = acc[j]]_vars
    /\ [][(apc = "send" /\ apc' # "send") =>
            \E i \in Callers : acc[i] = "waiting" /\ acc'[i] = "Bipipe"]_vars

\* a call was cancelled while the acceptor held the only connection, and a
\* later call received that connection from a listener that still listens
C26_Witness ==
    /\ heldAtCancel
    /\ nAccepted = 1
    /\ Delivered = 1
    /\ lpc = "open"
    /\ apc = "accept"

\* C27 as stated: once the listener is shut down, every connection the
\* acceptor took and no Accept call received is closed.
C27_Original == (lpc # "open") ~> (nAccepted = Delivered + nClosed)

\* C37 as stated: once the shutdown of a listener has started it eventually
\* completes and every pending Accept call returns, also when the acceptor
\* goroutine holds a connection and no Accept call is outstanding.
C37_Original ==
    (lpc = "started") ~> (lpc = "done" /\ \A i \in Callers : acc[i] # "waiting")

(***************************************************************************)
(* Properties of the loop registry                                         *)
(***************************************************************************)
\* the stubs that hold themselves registered under a name
ListeningOn(name) == {s \in Stubs : listening[s] /\ StubPath(s) = name}

\* C28: at every moment at most one stub is registered under a name, the
\* registry names a stub exactly when that stub holds itself registered,
\* and a StartListening for a name another stub holds changes nothing in
\* the registry or in any stub.
C28_OneStubPerName ==
    /\ [](\A name \in Names : Cardinality(ListeningOn(name)) <= 1)
    /\ [](\A s \in Stubs : listening[s] <=> entries[StubPath(s)] = s)
    /\ [][\A s \in Stubs :
            (starts'[s] # starts[s] /\ entries[StubPath(s)] \notin {NoStub, s}) =>
                UNCHANGED <<entries, listening, epst, callerConns>>]_vars

\* the second stub asked for the name the first one holds and was refused
C28_Witness ==
    /\ entries["a"] = 1
    /\ listening[1]
    /\ starts[2] > 0
    /\ ~listening[2]
    /\ epst[2] = "active"

\* C29 as stated: an enqueue succeeds when fewer than Backlog connections are
\* pending and returns the backlog-full error, queueing nothing, otherwise.
C29_Original ==
    [][(dtarget # NoStub /\ dtarget' = NoStub) =>
          IF callerConns[dtarget] < Backlog
            THEN dres' = "nil" /\ callerConns'[dtarget] = callerConns[dtarget] + 1
            ELSE dres' = "BacklogFull" /\ UNCHANGED callerConns]_vars

\* C29, amended: an enqueue never blocks; on a stub that is listening it
\* succeeds when fewer than Backlog connections are pending and returns the
\* backlog-full error otherwise, and on a stub that is not listening it
\* returns the no-listener error; a refused connection is not queued.
C29_Backlog ==
    /\ [](dtarget # NoStub => ENABLED EnqueueCallerConn)
    /\ [](\A s \in Stubs : callerConns[s] <= Backlog)
    /\ [][(dtarget # NoStub /\ dtarget' = NoStub) =>
            IF ~listening[dtarget]
              THEN dres' = "NoListener" /\ UNCHANGED callerConns
              ELSE IF callerConns[dtarget] < Backlog
                THEN /\ dres' = "nil"
                     /\ callerConns'[dtarget] = callerConns[dtarget] + 1
                ELSE dres' = "BacklogFull" /\ UNCHANGED callerConns]_vars

\* an enqueue found Backlog connections pending and was refused
C29_Witness ==
    /\ dres = "BacklogFull"
    /\ \E s \in Stubs : listening[s] /\ callerConns[s] = Backlog

\* C30: a stub whose shutdown has started is removed from the registry, by
\* its own HandleOnceShutdown and by nothing else, and from then on it is
\* never registered again and no connection is added to its queue.
C30_Unregisters ==
    /\ \A s \in Stubs :
          (epst[s] = "started") ~> (epst[s] = "draining" /\ entries[StubPath(s)] # s)
    /\ [][\A s \in Stubs :
            (entries[StubPath(s)] = s /\ entries'[StubPath(s)] # s) =>
                (epst[s] = "started" /\ epst'[s] = "draining")]_vars
    /\ [](\A s \in Stubs :
            epst[s] = "draining" => (entries[StubPath(s)] # s /\ ~listening[s]))
    /\ [][\A s \in Stubs :
            epst[s] = "draining" => callerConns'[s] <= callerConns[s]]_vars

\* a dialer got the stub from the registry before its handler removed it,
\* and its enqueue, made after the removal, was refused
C30_Witness ==
    /\ dres = "NoListener"
    /\ entries["a"] = NoStub
    /\ \E s \in Stubs : epst[s] = "draining" /\ starts[s] > 0

\* C36 as stated: once the shutdown of a loop stub has started it eventually
\* completes, whatever is queued on the stub.
C36_Original == \A s \in Stubs : (epst[s] = "started") ~> (epst[s] = "done")

(***************************************************************************)
(* Properties of the inbound sub-streams                                   *)
(***************************************************************************)
\* C31 as stated: every DialAndServe call has closed the connection handed to
\* it when it returns, on success and on every error return.
C31_Original ==
    \A i \in Streams : (dialed[i] /\ hnc[i] = "returned") => streamConn[i] = "closed"

\* C35 as stated: an endpoint is dialed for an inbound sub-stream only if its
\* descriptor is the skeleton of a channel of the session's config, and an
\* open request that names any other endpoint is rejected as
\* administratively prohibited.
C35_Original ==
    \A i \in Streams :
        /\ dialed[i] => streamReq[i] \in granted
        /\ (hnc[i] # "none" /\ streamReq[i] # BadJSON /\ streamReq[i] \notin granted)
              => rejection[i] = "Prohibited"

\* the skeleton endpoints the session holds as shutdown children that are
\* not shut down
LiveEndpoints == {i \in Streams : skel[i] = "live"}

\* the sub-streams that are being set up or served
OpenStreams == {i \in Streams : hnc[i] \in {"made", "accepted", "serving"}}

\* C40 as stated: when the serving of an inbound sub-stream ends its skeleton
\* endpoint is shut down, so the session never holds more live endpoints
\* than it has sub-streams open.
C40_Original ==
    /\ \A i \in Streams : hnc[i] \in {"returned", "ended"} => skel[i] # "live"
    /\ Cardinality(LiveEndpoints) <= Cardinality(OpenStreams)

(***************************************************************************)
(* Properties of the locked Unix-socket listeners                          *)
(***************************************************************************)
\* the processes whose listener is constructed and not yet closed
LiveListeners == {p \in Procs : ppc[p] = "live"}

\* C32 as stated: whatever the interleaving of the startups and shutdowns of
\* the processes, at most one listener on the path is live at any time.
C32_Original == Cardinality(LiveListeners) <= 1

\* C33 as stated: a listener never deletes its lock file while it holds the
\* advisory lock on that file.
C33_Original ==
    [][\A p \in Procs :
         (ppc[p] = "closing" /\ ppc'[p] = "unlinked" /\ lockFile = fdOf[p])
            => holder[fdOf[p]] # p]_vars

(***************************************************************************)
(* Properties of the write half of a Bipipe                                *)
(***************************************************************************)
\* C34 as stated: for every Bipipe variant, once CloseWrite has returned
\* every later Write on that Bipipe fails with an error.
C34_Original == lateWrite # "ok"
====
